---------------------------- MODULE Spec2Model ----------------------------
(***************************************************************************)
(* A model of the supereight2 mapping core: the octree child allocator,   *)
(* the TSDF updaters with their block and timestamp propagation, the      *)
(* multi-resolution occupancy block with its buffered scale switch and    *)
(* min/max propagation, and the raycasters.                               *)
(*                                                                         *)
(* Each subsystem has its own specification (SpecAlloc, SpecTsdf, ...)    *)
(* over its own variables; the variables of the other subsystems are      *)
(* held at their initial value.                                            *)
(*                                                                         *)
(* Field values (float in the source) are modelled in fixed point: an     *)
(* integer v stands for v / FieldOne.  Divisions round toward minus       *)
(* infinity; no property below depends on the rounding direction.         *)
(***************************************************************************)
EXTENDS Integers, Sequences, FiniteSets, TLC

NULL == 0

Min2(a, b) == IF a <= b THEN a ELSE b
Max2(a, b) == IF a >= b THEN a ELSE b

RECURSIVE Pow2(_)
Pow2(n) == IF n <= 0 THEN 1 ELSE 2 * Pow2(n - 1)

Cu(n) == n * n * n

VARIABLES
    \* ---- octree child allocator (Octree::allocate) ----
    psize,      \* size of the parent node, in units of BlockSize
    child,      \* the parent's child slots: child index -> octant pointer
    pool,       \* memory pool: sequence of allocated octants (pointer = index)
    lock,       \* holder of the critical section octree_allocator (0: free)
    aabb,       \* the octree's bounding box, as the set of child blocks it covers
    wpc,        \* worker -> position in allocate()
    widx,       \* worker -> child_idx argument of the call in progress
    wptr,       \* worker -> the call's child_ptr (out parameter)
    wbox,       \* worker -> the copy of aabb_ read by Eigen's extend()
    wcalls,     \* worker -> number of calls made
    wseen,      \* completed calls: set of <<worker, child_idx, wasEmpty, child_ptr>>
    \* ---- TSDF updaters (single-res and multi-res) ----
    tres,       \* "single" or "multi": the map's Res template parameter
    tframe,     \* the frame counter of the driver loop
    tpc,        \* position in Updater::operator(): idle, update, up
    tin,        \* inputs of the call in progress (block list, depth, mask, scale, interp)
    ts,         \* octant -> timestamp
    tblk,       \* block -> [current_scale, min_scale, data, past]
    \* ---- occupancy updater (one multi-res block and its parent node) ----
    ofs,        \* config.fs_integr_scale
    opc,        \* position in the updater: idle, switch, current, prop
    oin,        \* arguments and sensor data of the call in progress
    oblk,       \* the block: scales, pyramids (array handles), counters
    oheap,      \* array handle -> [live, v]
    onode,      \* the parent node: [min_data, max_data]
    ocalls,     \* calls of the occupancy updater so far
    oret,       \* what switchData() returned in the call in progress
    \* ---- occupancy raycast (one ray through the map) ----
    rmap,       \* position on the ray -> the map's data there
    rpc,        \* position in raycast: idle, loop, check, done
    rt,         \* t, in steps
    rvalue_t,   \* value_t: [has, v]
    rvalue_tt,  \* value_tt: [has, v]
    rpoint_t,   \* point_W_t, as a position on the ray
    rpoint_tt,  \* point_W_tt, as a position on the ray
    rres,       \* the returned optional: [some, t]
    \* ---- occupancy propagateToRoot (the octree above the blocks) ----
    plive,      \* the allocated octants
    pdata,      \* octant -> [min_data, max_data, timestamp]
    pframe,     \* frame_ of the updater
    ppc,        \* position in Updater::operator(): idle, nodes, blocks, root, loop
    pin,        \* allocation_list: [node_list, block_list, kind]
    node_set,   \* node_set_: depth -> set of octant pointers
    freed_block_list, \* freed_block_list_
    pd,         \* the loop variable d of propagateToRoot
    pit,        \* the elements of node_set_[d] the iterator has not visited
    plog,       \* the octants aggregated in this frame, in order
    pfreed,     \* the octants whose memory was released in this frame
    \* ---- the choice of the integration scale of a block ----
    scin,       \* the block's last scale, the sensor's answer and the config
    scpc,       \* idle or done
    scout,      \* the scale chosen
    \* ---- a caller reading a voxel of the occupancy block ----
    dq,         \* the last data(voxel_coord, scale_in, scale_out) call
    \* ---- the parallel voxel-block loop of the TSDF updater ----
    ulist,      \* block_ptrs: the blocks of the frame
    ufresh,     \* block -> the voxels of its finer scale have weight 0
    upc,        \* block -> position of the worker that processes it
    uacc,       \* the accesses made: <<worker's block, block accessed, kind>>
    \* ---- the calls on one occupancy block ----
    lblk,       \* the block
    lheap,      \* array handle -> [live, v]
    lop,        \* the last call on the block
    \* ---- one call of Octree::deleteChildren ----
    dimpl,  \* which of the two definitions of deleteChildren is called
    dtree,  \* the allocated octants
    dn,  \* parent_ptr
    dpc,  \* call or done
    dlog,  \* the octants released by the call, in order
    dub  \* the call has read memory it had released, or a null pointer

allocVars == <<psize, child, pool, lock, aabb, wpc, widx, wptr, wbox, wcalls, wseen>>
tsdfVars == <<tres, tframe, tpc, tin, ts, tblk>>
occVars == <<ofs, opc, oin, oblk, oheap, onode, ocalls, oret>>
rayVars == <<rmap, rpc, rt, rvalue_t, rvalue_tt, rpoint_t, rpoint_tt, rres>>
treeVars == <<plive, pdata, pframe, ppc, pin, node_set, freed_block_list, pd, pit,
              plog, pfreed>>

scaleVars == <<scin, scpc, scout>>
dataVars == <<dq>>
parVars == <<ulist, ufresh, upc, uacc>>
lifeVars == <<lblk, lheap, lop>>
delVars == <<dimpl, dtree, dn, dpc, dlog, dub>>

outsideAlloc == <<delVars, lifeVars, parVars, dataVars, tsdfVars, occVars, rayVars, treeVars, scaleVars>>
outsideTsdf == <<delVars, lifeVars, parVars, dataVars, allocVars, occVars, rayVars, treeVars, scaleVars>>
outsideOcc == <<delVars, lifeVars, parVars, allocVars, tsdfVars, rayVars, treeVars, scaleVars>>
outsideRay == <<delVars, lifeVars, parVars, dataVars, allocVars, tsdfVars, occVars, treeVars, scaleVars>>
outsideTree == <<delVars, lifeVars, parVars, dataVars, allocVars, tsdfVars, occVars, rayVars, scaleVars>>
outsideScale == <<delVars, lifeVars, parVars, dataVars, allocVars, tsdfVars, occVars, rayVars, treeVars>>
outsidePar == <<delVars, lifeVars, allocVars, tsdfVars, occVars, rayVars, treeVars, scaleVars, dataVars>>
outsideLife == <<delVars, allocVars, tsdfVars, occVars, rayVars, treeVars, scaleVars, dataVars, parVars>>
outsideDel == <<allocVars, tsdfVars, occVars, rayVars, treeVars, scaleVars, dataVars, parVars, lifeVars>>

vars == <<psize, child, pool, lock, aabb, wpc, widx, wptr, wbox, wcalls, wseen,
          tres, tframe, tpc, tin, ts, tblk,
          ofs, opc, oin, oblk, oheap, onode, ocalls, oret,
          rmap, rpc, rt, rvalue_t, rvalue_tt, rpoint_t, rpoint_tt, rres,
          plive, pdata, pframe, ppc, pin, node_set, freed_block_list, pd, pit,
          plog, pfreed, scin, scpc, scout, dq,
          ulist, ufresh, upc, uacc,
          lblk, lheap, lop,
          dimpl, dtree, dn, dpc, dlog, dub>>

-----------------------------------------------------------------------------
(***************************************************************************)
(* Octree::allocate(parent_ptr, child_idx, child_ptr)                      *)
(***************************************************************************)

NumWorkers == 2
NumChildIdx == 2
MaxCalls == 2

Workers == 1 .. NumWorkers
ChildIdx == 0 .. (NumChildIdx - 1)

\* parent_ptr->size == 2 * BlockSize: the children are blocks
ChildrenAreBlocks == psize = 2

\* the parent node and the pool before the first call
AllocStart ==
    /\ psize \in {2, 4}
    /\ child = [i \in ChildIdx |-> NULL]
    /\ pool = <<>>
    /\ lock = 0
    /\ aabb = {}
    /\ wpc = [w \in Workers |-> "idle"]
    /\ widx = [w \in Workers |-> 0]
    /\ wptr = [w \in Workers |-> NULL]
    /\ wbox = [w \in Workers |-> {}]
    /\ wcalls = [w \in Workers |-> 0]
    /\ wseen = {}

\* A worker enters allocate(): child_ptr = parent_ptr->getChild(child_idx);
\* if (child_ptr) return false;
AllocCall(w) ==
    /\ wpc[w] = "idle"
    /\ wcalls[w] < MaxCalls
    /\ \E i \in ChildIdx :
        /\ widx' = [widx EXCEPT ![w] = i]
        /\ wptr' = [wptr EXCEPT ![w] = child[i]]
        /\ wcalls' = [wcalls EXCEPT ![w] = @ + 1]
        /\ IF child[i] # NULL
             THEN /\ wpc' = wpc
                  /\ wseen' = wseen \cup {<<w, i, FALSE, child[i]>>}
             ELSE /\ wpc' = [wpc EXCEPT ![w] = "enter"]
                  /\ wseen' = wseen
    /\ UNCHANGED <<psize, child, pool, lock, aabb, wbox>>
    /\ UNCHANGED outsideAlloc

\* #pragma omp critical(octree_allocator): wait for the critical section
AllocEnter(w) ==
    /\ wpc[w] = "enter"
    /\ lock = 0
    /\ lock' = w
    /\ wpc' = [wpc EXCEPT ![w] = "pool"]
    /\ UNCHANGED <<psize, child, pool, aabb, widx, wptr, wbox, wcalls, wseen>>
    /\ UNCHANGED outsideAlloc

\* child_ptr = memory_pool_.allocateBlock / allocateNode(parent_ptr, child_idx, init_data);
\* and the end of the critical section
AllocPool(w) ==
    /\ wpc[w] = "pool"
    /\ lock = w
    /\ pool' = Append(pool, [idx |-> widx[w], is_block |-> ChildrenAreBlocks, by |-> w])
    /\ wptr' = [wptr EXCEPT ![w] = Len(pool) + 1]
    /\ lock' = 0
    /\ wpc' = [wpc EXCEPT ![w] = IF ChildrenAreBlocks THEN "aabb_read" ELSE "set"]
    /\ UNCHANGED <<psize, child, aabb, widx, wbox, wcalls, wseen>>
    /\ UNCHANGED outsideAlloc

\* aabbExtend(child_ptr->coord, parent_ptr->size / 2), outside the critical
\* section: aabb_.extend() reads the box ...
AllocAabbRead(w) ==
    /\ wpc[w] = "aabb_read"
    /\ wbox' = [wbox EXCEPT ![w] = aabb]
    /\ wpc' = [wpc EXCEPT ![w] = "aabb_write"]
    /\ UNCHANGED <<psize, child, pool, lock, aabb, widx, wptr, wcalls, wseen>>
    /\ UNCHANGED outsideAlloc

\* ... and writes the extended box back
AllocAabbWrite(w) ==
    /\ wpc[w] = "aabb_write"
    /\ aabb' = wbox[w] \cup {widx[w]}
    /\ wpc' = [wpc EXCEPT ![w] = "set"]
    /\ UNCHANGED <<psize, child, pool, lock, widx, wptr, wbox, wcalls, wseen>>
    /\ UNCHANGED outsideAlloc

\* parent_ptr->setChild(child_idx, child_ptr); return true;
AllocSetChild(w) ==
    /\ wpc[w] = "set"
    /\ child' = [child EXCEPT ![widx[w]] = wptr[w]]
    /\ wseen' = wseen \cup {<<w, widx[w], TRUE, wptr[w]>>}
    /\ wpc' = [wpc EXCEPT ![w] = "idle"]
    /\ UNCHANGED <<psize, pool, lock, aabb, widx, wptr, wbox, wcalls>>
    /\ UNCHANGED outsideAlloc

\* the octants the pool handed out for child slot i
PoolOctantsOf(i) == {p \in 1 .. Len(pool) : pool[p].idx = i}

\* no call for slot i is in progress
AllocQuiescent(i) == \A w \in Workers : wpc[w] = "idle" \/ widx[w] # i

\* C1: concurrent allocate() calls for the same (parent, child_idx) whose slot
\* was empty take exactly one octant from the pool, and every caller ends up
\* with the pointer stored in the parent.
C1_IdempotentAllocation ==
    \A i \in ChildIdx :
        (AllocQuiescent(i) /\ \E c \in wseen : c[2] = i) =>
            /\ Cardinality(PoolOctantsOf(i)) = 1
            /\ \A c \in wseen : c[2] = i => c[4] = child[i]

\* the workers inside aabbExtend
InAabbExtend == {w \in Workers : wpc[w] \in {"aabb_read", "aabb_write"}}

\* the blocks the pool handed out
AllocatedBlocks == {pool[p].idx : p \in {q \in 1 .. Len(pool) : pool[q].is_block}}

\* C16: every extension of the bounding box runs inside the octree_allocator
\* critical section, so no two calls update aabb_ at the same time, and once
\* the calls have completed the box contains every allocated block.
C16_AabbUnderLock ==
    /\ \A w \in InAabbExtend : lock = w
    /\ Cardinality(InAabbExtend) <= 1
    /\ (\A w \in Workers : wpc[w] = "idle") => AllocatedBlocks \subseteq aabb

-----------------------------------------------------------------------------
(***************************************************************************)
(* Voxel blocks: scales, voxel indices, parents and children               *)
(***************************************************************************)

\* log2 of the block side: BlockType::max_scale
MaxScale == 1
BlockSize == Pow2(MaxScale)
Scales == 0 .. MaxScale

\* BlockSize >> scale
SizeAt(s) == BlockSize \div Pow2(s)
NumVox(s) == Cu(SizeAt(s))
VoxIdx(s) == 0 .. (NumVox(s) - 1)

\* voxel_idx = x + y * size_at_scale + z * sq(size_at_scale)
VX(i, s) == i % SizeAt(s)
VY(i, s) == (i \div SizeAt(s)) % SizeAt(s)
VZ(i, s) == i \div (SizeAt(s) * SizeAt(s))

\* the voxel of scale s + 1 that covers voxel i of scale s
ParentIdx(i, s) ==
    (VX(i, s) \div 2) + (VY(i, s) \div 2) * SizeAt(s + 1)
        + (VZ(i, s) \div 2) * SizeAt(s + 1) * SizeAt(s + 1)

\* the eight voxels of scale s - 1 covered by voxel p of scale s
ChildrenOf(p, s) == {i \in VoxIdx(s - 1) : ParentIdx(i, s - 1) = p}

RECURSIVE SumOver(_, _)
SumOver(f, S) ==
    IF S = {} THEN 0
    ELSE LET x == CHOOSE y \in S : TRUE IN f[x] + SumOver(f, S \ {x})

\* ceil(a / b) for b > 0
CeilDiv(a, b) == -((-a) \div b)

-----------------------------------------------------------------------------
(***************************************************************************)
(* TSDF updaters                                                           *)
(***************************************************************************)

\* fixed-point unit of the field: the integer FieldOne stands for 1.0
FieldOne == 4
\* truncation_boundary, in the units of the sdf inputs
Tau == 4
\* map_.getDataConfig().max_weight
MaxWeight == 2
\* number of frames the driver loop integrates
MaxFrame == 3

\* The octree of the TSDF map: size 4 * BlockSize, a root, two nodes and a
\* block below each node.
TRoot == 1
TNodes == {2, 3}
TBlocks == {4, 5}
TOctants == {TRoot} \cup TNodes \cup TBlocks
TParent == [o \in TOctants |-> CASE o = 1 -> NULL
                                 [] o \in {2, 3} -> 1
                                 [] o = 4 -> 2
                                 [] o = 5 -> 3]

RECURSIVE TAncestors(_)
TAncestors(o) ==
    IF TParent[o] = NULL THEN {} ELSE {TParent[o]} \cup TAncestors(TParent[o])

\* DataType() and PropDataType()
TsdfDefaultData == [tsdf |-> FieldOne, weight |-> 0]
TsdfDefaultProp == [delta_tsdf |-> 0, delta_weight |-> 0]

\* BlockMultiRes<TSDF>::BlockMultiRes: block_data_.fill(init_data)
TsdfNewBlock(scale) ==
    [current_scale |-> scale,
     min_scale |-> -1,
     data |-> [s \in Scales |-> [i \in VoxIdx(s) |-> TsdfDefaultData]],
     past |-> [s \in Scales |-> [i \in VoxIdx(s) |-> TsdfDefaultProp]]]

\* se::math::clamp
Clamp(v, lo, hi) == Max2(lo, Min2(v, hi))

\* std::min(1.f, sdf_value / truncation_boundary)
TsdfValue(sdf) == Min2(FieldOne, (sdf * FieldOne) \div Tau)

\* an update whose weight is not saturated
UpdateVoxelUncapped(u, sdf) ==
    IF sdf > -Tau
      THEN [data |-> [tsdf |-> Clamp(TsdfValue(sdf), -FieldOne, FieldOne),
                      weight |-> u.data.weight + 1],
            prop |-> u.prop]
      ELSE u

\* Updater<TSDF, Res::Multi>::updateVoxel on a data union u = [data, prop]
UpdateVoxel(u, sdf) ==
    IF sdf > -Tau
      THEN LET tsdf_value == TsdfValue(sdf)
               avg == (u.data.tsdf * u.data.weight + tsdf_value) \div (u.data.weight + 1)
           IN [data |-> [tsdf |-> Clamp(avg, -FieldOne, FieldOne),
                         weight |-> Min2(u.data.weight + 1, MaxWeight)],
               prop |-> [u.prop EXCEPT !.delta_weight = @ + 1]]
      ELSE u

\* TSDFData::update(sdf, truncation_boundary, max_weight) of the single-res
\* updater: the same running average without the propagation data
FieldUpdate(d, sdf) ==
    IF sdf > -Tau
      THEN LET tsdf_value == TsdfValue(sdf)
               avg == (d.tsdf * d.weight + tsdf_value) \div (d.weight + 1)
           IN [tsdf |-> Clamp(avg, -FieldOne, FieldOne),
               weight |-> Min2(d.weight + 1, MaxWeight)]
      ELSE d

\* parent_down_funct
ParentDownFunct(u) ==
    [u EXCEPT !.prop = [delta_tsdf |-> u.data.tsdf, delta_weight |-> 0]]

\* visitor::getFieldInterp at the child's sample point: the field interpolated
\* at the parent scale, or nothing when a corner of the interpolation is
\* invalid (std::nullopt: valid = FALSE).
GetFieldInterp(parent, interp_ok) ==
    [valid |-> interp_ok /\ parent.data.weight > 0, value |-> parent.data.tsdf]

\* child_down_funct
ChildDownFunct(c, parent, interp_ok) ==
    LET delta_tsdf == parent.data.tsdf - parent.prop.delta_tsdf IN
    IF c.data.weight # 0
      THEN [data |-> [tsdf |-> Max2(c.data.tsdf + delta_tsdf, -FieldOne),
                      weight |-> Min2(c.data.weight + parent.prop.delta_weight, MaxWeight)],
            prop |-> [c.prop EXCEPT !.delta_weight = parent.prop.delta_weight]]
      ELSE LET interp_field_value == GetFieldInterp(parent, interp_ok) IN
           IF interp_field_value.valid
             THEN [data |-> [tsdf |-> interp_field_value.value, weight |-> parent.data.weight],
                   prop |-> [delta_tsdf |-> interp_field_value.value, delta_weight |-> 0]]
             ELSE c

\* one level of propagateBlockDown: the children of scale ps - 1 from their
\* parents of scale ps, then parent_funct on every parent
BlockDownLevel(blk, ps, interp_ok) ==
    LET U(s, i) == [data |-> blk.data[s][i], prop |-> blk.past[s][i]]
        newChild(i) == ChildDownFunct(U(ps - 1, i), U(ps, ParentIdx(i, ps - 1)), interp_ok)
        newParent(p) == ParentDownFunct(U(ps, p))
    IN [blk EXCEPT
          !.data = [s \in Scales |->
                      IF s = ps - 1 THEN [i \in VoxIdx(s) |-> newChild(i).data]
                      ELSE blk.data[s]],
          !.past = [s \in Scales |->
                      IF s = ps - 1 THEN [i \in VoxIdx(s) |-> newChild(i).prop]
                      ELSE IF s = ps THEN [p \in VoxIdx(s) |-> newParent(p).prop]
                      ELSE blk.past[s]]]

\* propagator::propagateBlockDown(octree, block, target_scale, child_funct, parent_funct)
RECURSIVE PropagateBlockDown(_, _, _, _)
PropagateBlockDown(blk, ps, target_scale, interp_ok) ==
    IF ps <= target_scale THEN blk
    ELSE PropagateBlockDown(BlockDownLevel(blk, ps, interp_ok), ps - 1, target_scale, interp_ok)

\* a variant of parent_up_funct that leaves the parent's delta_tsdf at zero
ParentUpFunctNoDelta(blk, cs, p) ==
    LET kids == {i \in ChildrenOf(p, cs + 1) : blk.data[cs][i].weight # 0}
        sample_count == Cardinality(kids)
        sum_tsdf == SumOver([i \in VoxIdx(cs) |-> blk.data[cs][i].tsdf], kids)
        sum_weight == SumOver([i \in VoxIdx(cs) |-> blk.data[cs][i].weight], kids)
    IN IF sample_count # 0
         THEN [data |-> [tsdf |-> sum_tsdf \div sample_count,
                         weight |-> CeilDiv(sum_weight, sample_count)],
               prop |-> [delta_tsdf |-> 0, delta_weight |-> 0]]
         ELSE [data |-> TsdfDefaultData, prop |-> TsdfDefaultProp]

\* a variant of parent_up_funct that truncates the mean weight
ParentUpFunctFloor(blk, cs, p) ==
    LET kids == {i \in ChildrenOf(p, cs + 1) : blk.data[cs][i].weight # 0}
        sample_count == Cardinality(kids)
        sum_tsdf == SumOver([i \in VoxIdx(cs) |-> blk.data[cs][i].tsdf], kids)
        sum_weight == SumOver([i \in VoxIdx(cs) |-> blk.data[cs][i].weight], kids)
    IN IF sample_count # 0
         THEN [data |-> [tsdf |-> sum_tsdf \div sample_count,
                         weight |-> sum_weight \div sample_count],
               prop |-> [delta_tsdf |-> sum_tsdf \div sample_count, delta_weight |-> 0]]
         ELSE [data |-> TsdfDefaultData, prop |-> TsdfDefaultProp]

\* child_up_funct over the eight children and parent_up_funct
ParentUpFunct(blk, cs, p) ==
    LET kids == {i \in ChildrenOf(p, cs + 1) : blk.data[cs][i].weight # 0}
        sample_count == Cardinality(kids)
        sum_tsdf == SumOver([i \in VoxIdx(cs) |-> blk.data[cs][i].tsdf], kids)
        sum_weight == SumOver([i \in VoxIdx(cs) |-> blk.data[cs][i].weight], kids)
    IN IF sample_count # 0
         THEN [data |-> [tsdf |-> sum_tsdf \div sample_count,
                         weight |-> CeilDiv(sum_weight, sample_count)],
               prop |-> [delta_tsdf |-> sum_tsdf \div sample_count, delta_weight |-> 0]]
         ELSE [data |-> TsdfDefaultData, prop |-> TsdfDefaultProp]

\* propagator::propagateBlockUp(octree, block, init_scale, child_up_funct, parent_up_funct)
RECURSIVE PropagateBlockUp(_, _)
PropagateBlockUp(blk, cs) ==
    IF cs >= MaxScale THEN blk
    ELSE LET up == [p \in VoxIdx(cs + 1) |-> ParentUpFunct(blk, cs, p)]
             nb == [blk EXCEPT !.data[cs + 1] = [p \in VoxIdx(cs + 1) |-> up[p].data],
                               !.past[cs + 1] = [p \in VoxIdx(cs + 1) |-> up[p].prop]]
         IN PropagateBlockUp(nb, cs + 1)

\* a stamp that counts the frames still to come
SetTimeStampRemaining(stamps, b, frame) == [stamps EXCEPT ![b] = MaxFrame - frame]

\* block_ptr->setTimeStamp(frame_)
SetTimeStamp(stamps, b, frame) == [stamps EXCEPT ![b] = frame]

RECURSIVE StampAll(_, _, _)
StampAll(stamps, list, frame) ==
    IF list = {} THEN stamps
    ELSE LET b == CHOOSE x \in list : TRUE
         IN StampAll(SetTimeStamp(stamps, b, frame), list \ {b}, frame)

\* the loop of propagateToRoot(std::vector<OctantBase*>&, PropagateF&) over the
\* sets child_ptrs and parent_ptrs
RECURSIVE PropagateLoop(_, _, _)
PropagateLoop(stamps, child_ptrs, parent_ptrs) ==
    IF parent_ptrs = {} THEN stamps
    ELSE LET up == {c \in child_ptrs : TParent[c] # NULL}
             new == [o \in TOctants |->
                       IF \E c \in up : TParent[c] = o /\ stamps[c] > stamps[o]
                         THEN stamps[CHOOSE c \in up : TParent[c] = o /\ stamps[c] > stamps[o]]
                         ELSE stamps[o]]
         IN PropagateLoop(new, {TParent[c] : c \in up}, {})

\* propagator::propagateTimeStampToRoot(block_ptrs): the first loop stamps the
\* parents of the blocks and collects them in child_ptrs; parent_ptrs is still
\* empty when the while loop tests it.
PropagateTimeStampToRoot(stamps, octant_ptrs) ==
    LET hit == {c \in octant_ptrs : stamps[c] > stamps[TParent[c]]}
        first == [o \in TOctants |->
                    IF \E c \in hit : TParent[c] = o
                      THEN stamps[CHOOSE c \in hit : TParent[c] = o]
                      ELSE stamps[o]]
        child_ptrs == {TParent[c] : c \in hit}
        parent_ptrs == {}
    IN PropagateLoop(first, child_ptrs, parent_ptrs)

\* the measurement of a frame at a voxel: the signed distance along the ray,
\* falling by Tau per voxel layer in z
Sdf(d, i, s) == d - Tau * VZ(i, s) * Pow2(s)

\* the voxels the updater skips: beyond the far plane, projecting outside the
\* image, or with a depth below the near plane
Skipped(mask, i, s) == mask = "x0" /\ VX(i, s) = 0

DepthInputs == {-(Tau + 1), 0, Tau}
MaskInputs == {"none", "x0"}
\* the blocks a frame sees: block 4 alone, or both blocks
BlockLists == {{4}, {4, 5}}
TsdfInputs ==
    [list : BlockLists, d : DepthInputs, mask : MaskInputs,
     c : Scales, interp : BOOLEAN]
TsdfNoInput == [list |-> {}, d |-> 0, mask |-> "none", c |-> 0, interp |-> FALSE]

\* the state of the TSDF map before the first frame
TsdfIdle ==
    /\ tres = "multi"
    /\ tframe = 0
    /\ tpc = "idle"
    /\ tin = TsdfNoInput
    /\ ts = [o \in TOctants |-> -1]
    /\ tblk = [b \in TBlocks |-> TsdfNewBlock(0)]

TsdfStart ==
    /\ tres \in {"single", "multi"}
    /\ tframe = 0
    /\ tpc = "idle"
    /\ tin = TsdfNoInput
    /\ ts = [o \in TOctants |-> -1]
    /\ \E s0 \in Scales :
          tblk = [b \in TBlocks |-> TsdfNewBlock(IF tres = "single" THEN 0 ELSE s0)]

\* curr_scale: the sensor's answer, not below one step under the last scale
CurrScale(computed_scale, last_curr_scale) ==
    Max2(computed_scale, last_curr_scale - 1)

\* the scale selection and the down-propagation of one block
\* (part of Updater<TSDF, Res::Multi>::operator())
SelectScale(blk, c, interp_ok) ==
    LET last_curr_scale == blk.current_scale
        curr_scale == CurrScale(c, last_curr_scale)
        b1 == [blk EXCEPT !.min_scale = IF blk.min_scale < 0 THEN curr_scale
                                        ELSE Min2(blk.min_scale, curr_scale)]
        b2 == IF curr_scale < last_curr_scale
                THEN PropagateBlockDown(b1, last_curr_scale, curr_scale, interp_ok)
                ELSE b1
    IN [b2 EXCEPT !.current_scale = curr_scale]

\* a voxel loop without the three continue statements
IntegrateBlockAll(blk, d, mask) ==
    LET s == blk.current_scale
        U(i) == [data |-> blk.data[s][i], prop |-> blk.past[s][i]]
        N(i) == UpdateVoxel(U(i), Sdf(d, i, s))
    IN [blk EXCEPT !.data[s] = [i \in VoxIdx(s) |-> N(i).data],
                   !.past[s] = [i \in VoxIdx(s) |-> N(i).prop]]

\* the voxel loop of one block at its current scale
IntegrateBlock(blk, d, mask) ==
    LET s == blk.current_scale
        U(i) == [data |-> blk.data[s][i], prop |-> blk.past[s][i]]
        N(i) == IF Skipped(mask, i, s) THEN U(i) ELSE UpdateVoxel(U(i), Sdf(d, i, s))
    IN [blk EXCEPT !.data[s] = [i \in VoxIdx(s) |-> N(i).data],
                   !.past[s] = [i \in VoxIdx(s) |-> N(i).prop]]

\* the voxel loop of Updater<TSDF, Res::Single>::operator()
IntegrateBlockSingle(blk, d, mask) ==
    [blk EXCEPT !.data[0] = [i \in VoxIdx(0) |->
        IF Skipped(mask, i, 0) THEN blk.data[0][i]
        ELSE FieldUpdate(blk.data[0][i], Sdf(d, i, 0))]]

\* Updater::operator()(block_ptrs): the frame is stamped on the blocks and, in
\* the multi-res map, each block's scale is chosen
TsdfBegin ==
    /\ tpc = "idle"
    /\ tframe < MaxFrame
    /\ tframe' = tframe + 1
    /\ \E in \in TsdfInputs :
        /\ tin' = in
        /\ ts' = StampAll(ts, in.list, tframe + 1)
        /\ tblk' = [b \in TBlocks |->
                      IF b \in in.list /\ tres = "multi"
                        THEN SelectScale(tblk[b], in.c, in.interp)
                        ELSE tblk[b]]
    /\ tpc' = "update"
    /\ UNCHANGED tres
    /\ UNCHANGED outsideTsdf

\* the voxel loops of the blocks
TsdfUpdate ==
    /\ tpc = "update"
    /\ tblk' = [b \in TBlocks |->
                  IF b \notin tin.list THEN tblk[b]
                  ELSE IF tres = "multi" THEN IntegrateBlock(tblk[b], tin.d, tin.mask)
                  ELSE IntegrateBlockSingle(tblk[b], tin.d, tin.mask)]
    /\ tpc' = "up"
    /\ UNCHANGED <<tres, tframe, tin, ts>>
    /\ UNCHANGED outsideTsdf

\* propagateBlockUp on every block (multi-res) and propagateTimeStampToRoot
TsdfUp ==
    /\ tpc = "up"
    /\ tblk' = [b \in TBlocks |->
                  IF b \in tin.list /\ tres = "multi"
                    THEN PropagateBlockUp(tblk[b], tblk[b].current_scale)
                    ELSE tblk[b]]
    /\ ts' = PropagateTimeStampToRoot(ts, tin.list)
    /\ tin' = TsdfNoInput
    /\ tpc' = "idle"
    /\ UNCHANGED <<tres, tframe>>
    /\ UNCHANGED outsideTsdf

-----------------------------------------------------------------------------
(***************************************************************************)
(* Multi-resolution occupancy blocks: BlockMultiRes<Occupancy>             *)
(***************************************************************************)

OIdx(x, y, z, s) == x + y * SizeAt(s) + z * SizeAt(s) * SizeAt(s)

\* the children of parent voxel p of scale ps, in the order of the loops
\* over k, j, i
OChildSeq(p, ps) ==
    [n \in 1 .. 8 |->
        OIdx(2 * VX(p, ps) + ((n - 1) % 2),
             2 * VY(p, ps) + (((n - 1) \div 2) % 2),
             2 * VZ(p, ps) + ((n - 1) \div 4),
             ps - 1)]

\* config.field.log_odd_max; log_odd_min is its negative
LogOddMax == 2
LogOddMin == -LogOddMax

\* DataType(): unobserved, no weight
OccDefaultData == [occupancy |-> 0, weight |-> 0, observed |-> FALSE]
\* the data of a node that was observed free, handed to the blocks allocated
\* below it
OccFreeData == [occupancy |-> LogOddMin, weight |-> 1, observed |-> TRUE]

\* get_field(data): the log-odds of the voxel
GetField(d) == d.occupancy * d.weight

\* the heap: array handles
MaxHandles == 9
Handles == 1 .. MaxHandles
DeadArray == [live |-> FALSE, v |-> [i \in {} |-> NULL]]
EmptyHeap == [h \in Handles |-> DeadArray]

\* new DataType[n]: the lowest unused handle of the heap H
FreshHandle(heap) ==
    CHOOSE h \in UNION {{g \in Handles : ~H[g].live /\ \A k \in 1 .. (g - 1) : H[k].live} :
                         H \in {heap}} : TRUE
HeapNew(heap, h, v) == [heap EXCEPT ![h] = [live |-> TRUE, v |-> v]]
\* delete[] p
HeapDelete(heap, h) == IF h = NULL THEN heap ELSE [heap EXCEPT ![h] = DeadArray]

\* the elements of a sequence
Range(seq) == {seq[k] : k \in DOMAIN seq}
\* element k of a std::vector
At(vec, k) == vec[k + 1]
\* pop_back
PopBack(vec) == SubSeq(vec, 1, Len(vec) - 1)

\* initialiseData(data, n): n copies of init_data_
InitialisedArray(blk, scale) == [i \in VoxIdx(scale) |-> blk.init_data]
\* new DataType[n], value-initialised
NewArray(scale) == [i \in VoxIdx(scale) |-> OccDefaultData]

\* BlockMultiRes<Occupancy>::BlockMultiRes(init_data): one voxel at the coarsest
\* scale, shared by the three pyramids.  The result is the block and the heap.
OccNewBlock(init_data) ==
    [blk |-> [current_scale |-> MaxScale, min_scale |-> -1, buffer_scale |-> -1,
              block_data |-> <<1>>, block_min_data |-> <<1>>, block_max_data |-> <<1>>,
              curr_data |-> 1, buffer_data |-> NULL,
              curr_integr_count |-> 0, curr_observed_count |-> 0,
              buffer_integr_count |-> 0, buffer_observed_count |-> 0,
              init_data |-> init_data],
     heap |-> HeapNew(EmptyHeap, 1, [i \in VoxIdx(MaxScale) |-> init_data])]

\* the loop of allocateDownTo over the scales below the last allocated one
RECURSIVE AllocLevels(_, _, _)
AllocLevels(M, scale, new_min_scale) ==
    IF scale < new_min_scale THEN M
    ELSE
      LET init == InitialisedArray(M.blk, scale)
          hd == FreshHandle(M.heap)
          h1 == HeapNew(M.heap, hd, init)
      IN IF scale = new_min_scale
           THEN AllocLevels(
                  [blk |-> [M.blk EXCEPT !.block_data = Append(@, hd),
                                         !.block_min_data = Append(@, hd),
                                         !.block_max_data = Append(@, hd)],
                   heap |-> h1], scale - 1, new_min_scale)
           ELSE LET hm == FreshHandle(h1)
                    h2 == HeapNew(h1, hm, init)
                    hx == FreshHandle(h2)
                    h3 == HeapNew(h2, hx, init)
                IN AllocLevels(
                     [blk |-> [M.blk EXCEPT !.block_data = Append(@, hd),
                                            !.block_min_data = Append(@, hm),
                                            !.block_max_data = Append(@, hx)],
                      heap |-> h3], scale - 1, new_min_scale)

\* allocateDownTo(new_min_scale)
AllocateDownTo(M, new_min_scale) ==
    LET size == Len(M.blk.block_data) IN
    IF MaxScale - (size - 1) > new_min_scale
      THEN LET data_at_scale == At(M.blk.block_data, size - 1)
               hm == FreshHandle(M.heap)
               h1 == HeapNew(M.heap, hm, M.heap[data_at_scale].v)
               hx == FreshHandle(h1)
               h2 == HeapNew(h1, hx, M.heap[data_at_scale].v)
               b1 == [M.blk EXCEPT !.block_min_data = Append(PopBack(@), hm),
                                   !.block_max_data = Append(PopBack(@), hx)]
               M2 == AllocLevels([blk |-> b1, heap |-> h2], MaxScale - size, new_min_scale)
           IN [blk |-> [M2.blk EXCEPT
                           !.current_scale = new_min_scale,
                           !.min_scale = new_min_scale,
                           !.curr_data = At(M2.blk.block_data, MaxScale - new_min_scale)],
               heap |-> M2.heap]
      ELSE M

\* the loop of deleteUpTo over the scales strictly between the old and the new
\* minimum scale
RECURSIVE DeleteLevels(_, _, _)
DeleteLevels(M, scale, new_min_scale) ==
    IF scale >= new_min_scale THEN M
    ELSE LET h1 == HeapDelete(M.heap, At(M.blk.block_data, MaxScale - scale))
             h2 == HeapDelete(h1, At(M.blk.block_min_data, MaxScale - scale))
             h3 == HeapDelete(h2, At(M.blk.block_max_data, MaxScale - scale))
         IN DeleteLevels(
              [blk |-> [M.blk EXCEPT !.block_data = PopBack(@),
                                     !.block_min_data = PopBack(@),
                                     !.block_max_data = PopBack(@)],
               heap |-> h3], scale + 1, new_min_scale)

\* deleteUpTo(new_min_scale)
DeleteUpTo(M, new_min_scale) ==
    IF M.blk.min_scale = -1 \/ M.blk.min_scale >= new_min_scale THEN M
    ELSE
      LET h1 == HeapDelete(M.heap, At(M.blk.block_data, MaxScale - M.blk.min_scale))
          b1 == [M.blk EXCEPT !.block_data = PopBack(@),
                              !.block_min_data = PopBack(@),
                              !.block_max_data = PopBack(@)]
          M2 == DeleteLevels([blk |-> b1, heap |-> h1], M.blk.min_scale + 1, new_min_scale)
          mean == At(M2.blk.block_data, MaxScale - new_min_scale)
          h3 == HeapDelete(M2.heap, At(M2.blk.block_min_data, MaxScale - new_min_scale))
          h4 == HeapDelete(h3, At(M2.blk.block_max_data, MaxScale - new_min_scale))
      IN [blk |-> [M2.blk EXCEPT !.block_min_data = Append(PopBack(@), mean),
                                 !.block_max_data = Append(PopBack(@), mean),
                                 !.min_scale = new_min_scale],
          heap |-> h4]

\* the ratio test shared by incrBufferIntegrCount and switchData:
\* buffer_observed_count * cu(1 << buffer_scale) >= 0.9 * curr_observed_count * cu(1 << current_scale)
BufferCoversCurrent(blk) ==
    10 * blk.buffer_observed_count * Cu(Pow2(blk.buffer_scale))
        >= 9 * blk.curr_observed_count * Cu(Pow2(blk.current_scale))

\* the number of buffered integrations switchData asks for
SwitchIntegrCount == 20

\* initCurrCout()
InitCurrCout(blk) ==
    IF blk.init_data.observed
      THEN [blk EXCEPT !.curr_integr_count = blk.init_data.weight,
                       !.curr_observed_count = NumVox(blk.current_scale)]
      ELSE [blk EXCEPT !.curr_integr_count = 0, !.curr_observed_count = 0]

\* an increment that does not look at do_increment or at the counts
IncrBufferIntegrCountAlways(blk, do_increment) ==
    [blk EXCEPT !.buffer_integr_count = @ + 1]

\* incrBufferIntegrCount(do_increment)
IncrBufferIntegrCount(blk, do_increment) ==
    IF do_increment \/ BufferCoversCurrent(blk)
      THEN [blk EXCEPT !.buffer_integr_count = @ + 1]
      ELSE blk

\* resetBuffer()
ResetBuffer(M) ==
    [blk |-> [M.blk EXCEPT !.buffer_data = NULL, !.buffer_scale = -1,
                           !.buffer_integr_count = 0, !.buffer_observed_count = 0],
     heap |-> IF M.blk.buffer_scale < M.blk.current_scale
                THEN HeapDelete(M.heap, M.blk.buffer_data)
                ELSE M.heap]

\* initBuffer(buffer_scale)
InitBuffer(M, buffer_scale) ==
    LET R == ResetBuffer(M) IN
    IF buffer_scale < R.blk.current_scale
      THEN LET hb == FreshHandle(R.heap)
           IN [blk |-> [R.blk EXCEPT !.buffer_scale = buffer_scale, !.buffer_data = hb],
               heap |-> HeapNew(R.heap, hb, NewArray(buffer_scale))]
      ELSE [blk |-> [R.blk EXCEPT !.buffer_scale = buffer_scale,
                                  !.buffer_data = At(R.blk.block_data, MaxScale - buffer_scale)],
            heap |-> R.heap]

\* switchData(), when its test has passed: the pyramids grow or shrink, the
\* weighted voxels of the buffer are marked observed, the buffer becomes the
\* current data
DoSwitch(M) ==
    LET b == M.blk
        bs == b.buffer_scale
        P == IF bs < b.current_scale
               THEN LET b1 == [b EXCEPT !.block_data = Append(@, b.buffer_data),
                                        !.block_min_data = Append(@, b.buffer_data),
                                        !.block_max_data = Append(@, b.buffer_data)]
                        hm == FreshHandle(M.heap)
                        h1 == HeapNew(M.heap, hm, NewArray(bs + 1))
                        hx == FreshHandle(h1)
                        h2 == HeapNew(h1, hx, NewArray(bs + 1))
                    IN [blk |-> [b1 EXCEPT
                                   !.block_min_data[MaxScale - (bs + 1) + 1] = hm,
                                   !.block_max_data[MaxScale - (bs + 1) + 1] = hx],
                        heap |-> h2]
               ELSE DeleteUpTo(M, bs)
        buf == P.heap[b.buffer_data].v
        missed == {i \in VoxIdx(bs) : buf[i].weight > 0 /\ ~buf[i].observed}
        marked == [i \in VoxIdx(bs) |->
                     IF i \in missed THEN [buf[i] EXCEPT !.observed = TRUE] ELSE buf[i]]
        observed_count == b.buffer_observed_count + Cardinality(missed)
    IN [blk |-> [P.blk EXCEPT !.current_scale = bs,
                              !.min_scale = bs,
                              !.curr_data = b.buffer_data,
                              !.curr_integr_count = b.buffer_integr_count,
                              !.curr_observed_count = observed_count,
                              !.buffer_data = NULL,
                              !.buffer_scale = -1,
                              !.buffer_integr_count = 0,
                              !.buffer_observed_count = 0],
        heap |-> [P.heap EXCEPT ![b.buffer_data].v = marked]]

\* a switch that does not wait for the buffered integrations
SwitchDataEager(M) ==
    IF BufferCoversCurrent(M.blk)
      THEN [ret |-> TRUE, M |-> DoSwitch(M)]
      ELSE [ret |-> FALSE, M |-> M]

\* a switch that leaves the counters of the buffer as they were
SwitchDataKeepCount(M) ==
    IF M.blk.buffer_integr_count >= SwitchIntegrCount /\ BufferCoversCurrent(M.blk)
      THEN [ret |-> TRUE,
            M |-> [DoSwitch(M) EXCEPT
                     !.blk.buffer_integr_count = M.blk.buffer_integr_count,
                     !.blk.buffer_observed_count = M.blk.buffer_observed_count]]
      ELSE [ret |-> FALSE, M |-> M]

\* switchData()
SwitchData(M) ==
    IF M.blk.buffer_integr_count >= SwitchIntegrCount /\ BufferCoversCurrent(M.blk)
      THEN [ret |-> TRUE, M |-> DoSwitch(M)]
      ELSE [ret |-> FALSE, M |-> M]

\* compute_three_sigma and compute_tau of the block, in the units of range_diff
ThreeSigma == 2
OccTau == 4

\* DataType::field.update(sample_value, max_weight)
OccFieldUpdate(d, sample_value) ==
    [occupancy |-> (d.occupancy * d.weight + sample_value) \div (d.weight + 1),
     weight |-> Min2(d.weight + 1, MaxWeight),
     observed |-> TRUE]

\* update_voxel(data, range_diff, tau, three_sigma, config): the new data and
\* whether the voxel is newly observed
OccUpdateVoxel(d, range_diff) ==
    LET sample_value ==
          IF range_diff < -ThreeSigma THEN LogOddMin
          ELSE IF 2 * range_diff < OccTau
            THEN Min2(LogOddMin - (LogOddMin * (range_diff + ThreeSigma)) \div ThreeSigma,
                      LogOddMax)
          ELSE Min2((-LogOddMin * OccTau) \div (2 * ThreeSigma), LogOddMax)
    IN IF range_diff >= OccTau
         THEN [data |-> d, newly_observed |-> FALSE]
         ELSE [data |-> OccFieldUpdate(d, sample_value), newly_observed |-> ~d.observed]

\* free_voxel(data, config)
OccFreeVoxel(d) ==
    [data |-> OccFieldUpdate(d, LogOddMin), newly_observed |-> ~d.observed]

-----------------------------------------------------------------------------
(***************************************************************************)
(* Occupancy updater: updateBlock, freeBlock and the propagation           *)
(***************************************************************************)

\* the number of calls of the updater on the block
MaxOccCalls == 2

\* which voxels of the block project into the depth image with a valid depth
VisInputs == {"all", "first", "rest", "none"}
Visible(vis, i) ==
    vis = "all" \/ (vis = "first" /\ i = 0) \/ (vis = "rest" /\ i # 0)

\* range_diff of a voxel well in front of the surface and of one on it
RangeDiffInputs == {-(ThreeSigma + 1), OccTau \div 2}

\* the last integration scale
LastScale(blk) == IF blk.min_scale = -1 THEN 0 ELSE blk.current_scale

\* sensor_.computeIntegrationScale(...): any scale for a block without data,
\* at most one step from the last scale afterwards
ComputedScales(blk) ==
    IF blk.min_scale = -1 THEN Scales
    ELSE {c \in Scales : c >= LastScale(blk) - 1 /\ c <= LastScale(blk) + 1}

\* the arguments of updateBlock (kind "update") and freeBlock (kind "free"),
\* with the sensor data the call reads: a low-variance block is freed, any
\* other block sees the surface
OccInputs(blk) ==
    [kind : {"update"}, c : ComputedScales(blk), low_variance : {FALSE},
     project_inside : BOOLEAN, vis : VisInputs, rd : RangeDiffInputs]
    \cup
    [kind : {"update"}, c : ComputedScales(blk), low_variance : {TRUE},
     project_inside : BOOLEAN, vis : {"all"}, rd : {0}]
    \cup
    [kind : {"free"}, c : ComputedScales(blk), low_variance : {TRUE},
     project_inside : {TRUE}, vis : {"all"}, rd : {0}]
OccNoInput ==
    [kind |-> "update", c |-> 0, low_variance |-> FALSE, project_inside |-> FALSE,
     vis |-> "all", rd |-> 0]

\* block_ptr->maxValue(): the field of the max data at the coarsest scale
MaxValue(M) == GetField(M.heap[At(M.blk.block_max_data, 0)].v[0])

\* recommended_scale from the scales it is computed from; free_space: the
\* block has low variance (always, in freeBlock) and its maxValue() is below
\* 0.95 * log_odd_min
RecommendedScaleAt(computed, last_scale, min_scale, low_variance, free_space, fs_integr_scale, max_scale) ==
    LET min_integration_scale ==
            IF low_variance /\ (min_scale = -1 \/ free_space)
              THEN fs_integr_scale
              ELSE Max2(0, last_scale - 1)
        max_integration_scale ==
            IF min_scale = -1 THEN max_scale
            ELSE Min2(max_scale, last_scale + 1)
    IN Min2(Max2(min_integration_scale, computed), max_integration_scale)

\* the recommended integration scale of updateBlock / freeBlock
RecommendedScale(M, in, fs_integr_scale) ==
    RecommendedScaleAt(in.c, LastScale(M.blk), M.blk.min_scale, in.low_variance,
                       100 * MaxValue(M) < 95 * LogOddMin, fs_integr_scale, MaxScale)

\* the voxel loop of the kernel over one array: the updated array and the
\* number of newly observed voxels
IntegrateArray(v, in) ==
    LET R(i) == IF ~Visible(in.vis, i) THEN [data |-> v[i], newly_observed |-> FALSE]
                ELSE IF in.low_variance THEN OccFreeVoxel(v[i])
                ELSE OccUpdateVoxel(v[i], in.rd)
    IN [v |-> [i \in DOMAIN v |-> R(i).data],
        newly |-> Cardinality({i \in DOMAIN v : R(i).newly_observed})]

\* the initialisation of a finer buffer from the current data: every child
\* (2x + i, 2y + j, 2z + k) takes the occupancy and weight of its parent
\* (x, y, z), unobserved
CopyDown(bufv, curv, parent_scale) ==
    [n \in DOMAIN bufv |->
        LET p == OIdx(VX(n, parent_scale - 1) \div 2, VY(n, parent_scale - 1) \div 2,
                      VZ(n, parent_scale - 1) \div 2, parent_scale)
        IN [occupancy |-> curv[p].occupancy, weight |-> curv[p].weight,
            observed |-> FALSE]]

\* the first integration of a block: allocateDownTo, setCurrentScale,
\* initCurrCout, setInitData
FirstIntegration(M, recommended_scale) ==
    LET A == AllocateDownTo(M, recommended_scale)
        b1 == InitCurrCout([A.blk EXCEPT !.current_scale = recommended_scale])
    IN [blk |-> [b1 EXCEPT !.init_data = OccDefaultData], heap |-> A.heap]

\* the integration into the buffer: initBuffer when the buffer is not at the
\* recommended scale, the voxel loop over the buffer, incrBufferIntegrCount
IntegrateBuffer(M, in, recommended_scale) ==
    LET last_scale == LastScale(M.blk)
        B == IF recommended_scale # M.blk.buffer_scale
               THEN LET I == InitBuffer(M, recommended_scale)
                    IN IF recommended_scale < last_scale
                         THEN [I EXCEPT !.heap[I.blk.buffer_data].v =
                                 CopyDown(@, I.heap[I.blk.curr_data].v, last_scale)]
                         ELSE I
               ELSE M
        R == IntegrateArray(B.heap[B.blk.buffer_data].v, in)
        b1 == [B.blk EXCEPT !.buffer_observed_count = @ + R.newly]
    IN [blk |-> IncrBufferIntegrCount(b1, in.project_inside),
        heap |-> [B.heap EXCEPT ![B.blk.buffer_data].v = R.v]]

\* the integration into the current data and incrCurrIntegrCount
IntegrateCurrent(M, in) ==
    LET R == IntegrateArray(M.heap[M.blk.curr_data].v, in)
    IN [blk |-> [M.blk EXCEPT !.curr_observed_count = @ + R.newly,
                              !.curr_integr_count = @ + 1],
        heap |-> [M.heap EXCEPT ![M.blk.curr_data].v = R.v]]

\* std::numeric_limits<field_t>::max(); lowest() is its negative
FltMax == 1000

\* the accumulators of the propagation loops before the first child
PropStart ==
    [data_count |-> 0, mean_occupancy |-> 0, mean_weight |-> 0,
     min_mean_occupancy |-> 0, min_weight |-> 0, min_occupancy |-> FltMax,
     max_mean_occupancy |-> 0, max_weight |-> 0, max_occupancy |-> -FltMax,
     observed_count |-> 0]

\* one child in the first level of propagate_block_to_scale, where the
\* children are the voxels of the current scale
StepFirst(acc, child_data) ==
    LET occupancy == GetField(child_data)
        a1 == IF child_data.weight > 0
                THEN LET m == [acc EXCEPT !.data_count = @ + 1,
                                          !.mean_occupancy = @ + child_data.occupancy,
                                          !.mean_weight = @ + child_data.weight]
                     IN IF occupancy > acc.max_occupancy
                          THEN [m EXCEPT !.max_mean_occupancy = child_data.occupancy,
                                         !.max_weight = child_data.weight,
                                         !.max_occupancy = occupancy]
                        ELSE IF occupancy < acc.min_occupancy
                          THEN [m EXCEPT !.min_mean_occupancy = child_data.occupancy,
                                         !.min_weight = child_data.weight,
                                         !.min_occupancy = occupancy]
                        ELSE m
                ELSE acc
    IN IF child_data.observed THEN [a1 EXCEPT !.observed_count = @ + 1] ELSE a1

\* one child in the levels above, where the children carry min and max data
StepHigher(acc, child_data, child_min_data, child_max_data) ==
    LET child_max_occupancy == GetField(child_max_data)
        child_min_occupancy == GetField(child_min_data)
        a1 == IF child_max_data.weight > 0
                THEN LET m == [acc EXCEPT !.data_count = @ + 1,
                                          !.mean_occupancy = @ + child_data.occupancy,
                                          !.mean_weight = @ + child_data.weight]
                         x == IF child_max_occupancy > acc.max_occupancy
                                THEN [m EXCEPT !.max_mean_occupancy = child_max_data.occupancy,
                                               !.max_weight = child_max_data.weight,
                                               !.max_occupancy = child_max_occupancy]
                                ELSE m
                     IN IF child_min_occupancy < acc.min_occupancy
                          THEN [x EXCEPT !.min_mean_occupancy = child_min_data.occupancy,
                                         !.min_weight = child_min_data.weight,
                                         !.min_occupancy = child_min_occupancy]
                          ELSE x
                ELSE acc
    IN IF child_max_data.observed THEN [a1 EXCEPT !.observed_count = @ + 1] ELSE a1

\* the loop over the eight children of parent voxel p
RECURSIVE FoldChildren(_, _, _, _, _, _, _)
FoldChildren(first, v, vmin, vmax, children, n, acc) ==
    IF n > 8 THEN acc
    ELSE LET c == children[n]
         IN FoldChildren(first, v, vmin, vmax, children, n + 1,
                         IF first THEN StepFirst(acc, v[c])
                         ELSE StepHigher(acc, v[c], vmin[c], vmax[c]))

\* one parent scale of propagate_block_to_scale
PropagateLevel(M, parent_scale, first) ==
    LET hd == At(M.blk.block_data, MaxScale - parent_scale)
        hm == At(M.blk.block_min_data, MaxScale - parent_scale)
        hx == At(M.blk.block_max_data, MaxScale - parent_scale)
        cv == M.heap[At(M.blk.block_data, MaxScale - (parent_scale - 1))].v
        cvmin == M.heap[At(M.blk.block_min_data, MaxScale - (parent_scale - 1))].v
        cvmax == M.heap[At(M.blk.block_max_data, MaxScale - (parent_scale - 1))].v
        acc == [p \in VoxIdx(parent_scale) |->
                  FoldChildren(first, cv, cvmin, cvmax, OChildSeq(p, parent_scale), 1, PropStart)]
        mean(p, old) ==
            IF acc[p].data_count > 0
              \* ceil(mean_weight) / data_count, kept to whole weights
              THEN [occupancy |-> acc[p].mean_occupancy \div acc[p].data_count,
                    weight |-> acc[p].mean_weight \div acc[p].data_count,
                    observed |-> FALSE]
              ELSE old
        lo(p, old) ==
            IF acc[p].data_count > 0
              THEN [occupancy |-> acc[p].min_mean_occupancy,
                    weight |-> acc[p].min_weight,
                    observed |-> IF acc[p].observed_count = 8 THEN TRUE ELSE old.observed]
              ELSE old
        hi(p, old) ==
            IF acc[p].data_count > 0
              THEN [occupancy |-> acc[p].max_mean_occupancy,
                    weight |-> acc[p].max_weight,
                    observed |-> IF acc[p].observed_count = 8 THEN TRUE ELSE old.observed]
              ELSE old
        h1 == [M.heap EXCEPT ![hd].v = [p \in VoxIdx(parent_scale) |-> mean(p, @[p])]]
        h2 == [h1 EXCEPT ![hm].v = [p \in VoxIdx(parent_scale) |-> lo(p, @[p])]]
        h3 == [h2 EXCEPT ![hx].v = [p \in VoxIdx(parent_scale) |-> hi(p, @[p])]]
    IN [blk |-> M.blk, heap |-> h3]

RECURSIVE PropagateLevels(_, _, _)
PropagateLevels(M, parent_scale, first) ==
    IF parent_scale > MaxScale THEN M
    ELSE PropagateLevels(PropagateLevel(M, parent_scale, first), parent_scale + 1, FALSE)

\* a variant that counts each run in the weight of the coarsest mean
PropagateBlockCounting(M) ==
    IF M.blk.current_scale = MaxScale THEN M
    ELSE LET N == PropagateLevels(M, M.blk.current_scale + 1, TRUE)
             hd == At(N.blk.block_data, 0)
         IN [N EXCEPT !.heap[hd].v[0].weight = Min2(M.heap[hd].v[0].weight + 1, MaxWeight)]

\* propagate_block_to_coarsest_scale(block)
PropagateBlockToCoarsestScale(M) ==
    IF M.blk.current_scale = MaxScale THEN M
    ELSE PropagateLevels(M, M.blk.current_scale + 1, TRUE)

\* block.minData() and block.maxData(): the data at the coarsest scale
BlockMinData(M) == M.heap[At(M.blk.block_min_data, 0)].v[0]
BlockMaxData(M) == M.heap[At(M.blk.block_max_data, 0)].v[0]

\* propagate_to_parent_node(node, timestamp) for a node whose only child is
\* the block
PropagateToParentNode(node, M) ==
    LET child_min_data == BlockMinData(M)
        child_max_data == BlockMaxData(M)
        min_hit == child_min_data.weight > 0 /\ GetField(child_min_data) < FltMax
        max_hit == child_max_data.weight > 0 /\ GetField(child_max_data) > -FltMax
    IN [min_data |-> IF min_hit
                       THEN [node.min_data EXCEPT !.occupancy = child_min_data.occupancy,
                                                  !.weight = child_min_data.weight]
                       ELSE node.min_data,
        max_data |-> IF max_hit
                       THEN [node.max_data EXCEPT !.occupancy = child_max_data.occupancy,
                                                  !.weight = child_max_data.weight]
                       ELSE node.max_data]

\* getVoxelIdx(voxel_coord, scale) of the voxel with index i at scale 0
OccGetVoxelIdx(i, scale) ==
    OIdx(VX(i, 0) \div Pow2(scale), VY(i, 0) \div Pow2(scale),
         VZ(i, 0) \div Pow2(scale), scale)

\* the voxels a caller asks for: the two corners of the block
QueryVoxels == {0, NumVox(0) - 1}

NoQuery ==
    [called |-> FALSE, voxel |-> 0, scale_in |-> 0, scale_out |-> 0,
     in_range |-> TRUE, data |-> OccDefaultData]

\* block_data_[max_scale - scale][voxel_idx]: the element, or any data when
\* the vector has no such array or the array was deleted
BlockDataAt(M, scale, voxel_idx) ==
    LET k == MaxScale - scale
        in_range == /\ k \in 0 .. (Len(M.blk.block_data) - 1)
                    /\ M.heap[At(M.blk.block_data, k)].live
                    /\ voxel_idx \in DOMAIN M.heap[At(M.blk.block_data, k)].v
    IN IF in_range
         THEN {[in_range |-> TRUE, data |-> M.heap[At(M.blk.block_data, k)].v[voxel_idx]]}
         ELSE [in_range : {FALSE}, data : {OccDefaultData, OccFreeData}]

\* data() with scale_out = scale_in
OccDataDesired(M, i, scale_in) ==
    {[called |-> TRUE, voxel |-> i, scale_in |-> scale_in, scale_out |-> scale_in,
      in_range |-> r.in_range, data |-> r.data] :
        r \in BlockDataAt(M, scale_in, OccGetVoxelIdx(i, scale_in))}

\* BlockMultiRes<Occupancy>::data(voxel_coord, scale_in, scale_out): the
\* outcomes of the call
OccData(M, i, scale_in) ==
    LET scale_out == Max2(scale_in, M.blk.current_scale)
    IN {[called |-> TRUE, voxel |-> i, scale_in |-> scale_in, scale_out |-> scale_out,
         in_range |-> r.in_range, data |-> r.data] :
           r \in BlockDataAt(M, scale_out, OccGetVoxelIdx(i, scale_out))}

\* the block and the heap as one value
OccM == [blk |-> oblk, heap |-> oheap]

\* the steps of a call in sequence: F applied to the result x of the step
\* before it
Then(x, F(_)) == CHOOSE r \in {F(v) : v \in {x}} : TRUE

\* updateBlock / freeBlock on one block, from the choice of the scale to the
\* return
KernelCall(M, in, fs_integr_scale) ==
    LET recommended_scale == RecommendedScale(M, in, fs_integr_scale)
    IN IF M.blk.min_scale = -1
         THEN Then(FirstIntegration(M, recommended_scale),
                   LAMBDA A : IntegrateCurrent(A, in))
       ELSE IF recommended_scale # LastScale(M.blk)
         THEN Then(IntegrateBuffer(M, in, recommended_scale),
                   LAMBDA B : Then(SwitchData(B),
                   LAMBDA S : IF S.ret THEN S.M ELSE IntegrateCurrent(S.M, in)))
       ELSE Then(ResetBuffer(M), LAMBDA R : IntegrateCurrent(R, in))

\* Updater::operator() on the block: the kernel, the propagation in the block
\* and the propagation to the node
Frame(W, in) ==
    Then([blk |-> W.blk, heap |-> W.heap],
         LAMBDA M : Then(KernelCall(M, in, 0),
         LAMBDA K : Then(PropagateBlockToCoarsestScale(K),
         LAMBDA N : [blk |-> N.blk, heap |-> N.heap,
                     node |-> PropagateToParentNode(W.node, N)])))

\* frames with the same sensor data until the buffer has been integrated
\* count times or has gone
RECURSIVE BufferedFrames(_, _, _)
BufferedFrames(W, in, count) ==
    Then(Frame(W, in),
         LAMBDA N : IF N.blk.buffer_integr_count >= count \/ N.blk.buffer_scale = -1
                      THEN N
                      ELSE BufferedFrames(N, in, count))

\* a frame that sees the surface in the voxels vis and asks for scale c
SurfaceFrame(c, vis) ==
    [kind |-> "update", c |-> c, low_variance |-> FALSE, project_inside |-> TRUE,
     vis |-> vis, rd |-> OccTau \div 2]

\* a block as constructed below a node, before its first integration
Constructed(init_data) ==
    [blk |-> OccNewBlock(init_data).blk, heap |-> OccNewBlock(init_data).heap,
     node |-> [min_data |-> OccDefaultData, max_data |-> OccDefaultData]]

\* a block integrated once at scale 0 and then asked for scale 1 in every
\* frame, one buffered integration short of switchData's count
BeforeCoarserSwitch(vis) ==
    BufferedFrames(Frame(Constructed(OccDefaultData), SurfaceFrame(0, vis)),
                   SurfaceFrame(1, vis), SwitchIntegrCount - 1)

\* the same block after its switch to scale 1, asked for scale 0 in every
\* frame since, one buffered integration short of switchData's count
BeforeFinerSwitch(vis) ==
    BufferedFrames(Frame(BeforeCoarserSwitch(vis), SurfaceFrame(1, vis)),
                   SurfaceFrame(0, vis), SwitchIntegrCount - 1)

\* the blocks the frames start from
OccStartBlocks ==
    {Constructed(OccDefaultData), Constructed(OccFreeData)}
    \cup {BeforeCoarserSwitch(vis) : vis \in {"all", "none"}}
    \cup {BeforeFinerSwitch(vis) : vis \in {"all", "none"}}

OccStart ==
    /\ ofs \in Scales
    /\ opc = "idle"
    /\ oin = OccNoInput
    /\ ocalls = 0
    /\ oret = "none"
    /\ \E W \in OccStartBlocks :
          /\ oblk = W.blk
          /\ oheap = W.heap
          /\ onode = W.node

OccIdle ==
    /\ ofs = 0
    /\ opc = "idle"
    /\ oin = OccNoInput
    /\ ocalls = 0
    /\ oret = "none"
    /\ oblk = OccNewBlock(OccDefaultData).blk
    /\ oheap = OccNewBlock(OccDefaultData).heap
    /\ onode = [min_data |-> OccDefaultData, max_data |-> OccDefaultData]

\* updateBlock / freeBlock up to the voxel loop over the current data: the
\* scale is chosen; a block without data is allocated, a block whose
\* recommended scale differs from its last scale gets the frame in its buffer,
\* any other block loses its buffer
OccBegin ==
    /\ opc = "idle"
    /\ ocalls < MaxOccCalls
    /\ ocalls' = ocalls + 1
    /\ \E in \in OccInputs(oblk) :
        LET recommended_scale == RecommendedScale(OccM, in, ofs)
            N == IF oblk.min_scale = -1 THEN FirstIntegration(OccM, recommended_scale)
                 ELSE IF recommended_scale # LastScale(oblk)
                   THEN IntegrateBuffer(OccM, in, recommended_scale)
                 ELSE ResetBuffer(OccM)
        IN /\ oin' = in
           /\ oblk' = N.blk
           /\ oheap' = N.heap
           /\ opc' = IF oblk.min_scale # -1 /\ recommended_scale # LastScale(oblk)
                       THEN "switch" ELSE "current"
    /\ dq' = NoQuery
    /\ UNCHANGED <<ofs, onode, oret>>
    /\ UNCHANGED outsideOcc

\* if (block_ptr->switchData()) return;
OccSwitch ==
    /\ opc = "switch"
    /\ LET S == SwitchData(OccM)
       IN /\ oblk' = S.M.blk
          /\ oheap' = S.M.heap
          /\ opc' = IF S.ret THEN "prop" ELSE "current"
          /\ oret' = IF S.ret THEN "true" ELSE "false"
    /\ UNCHANGED <<ofs, oin, onode, ocalls>>
    /\ UNCHANGED dataVars
    /\ UNCHANGED outsideOcc

\* the voxel loop over the current data and incrCurrIntegrCount
OccCurrent ==
    /\ opc = "current"
    /\ LET N == IntegrateCurrent(OccM, oin)
       IN /\ oblk' = N.blk
          /\ oheap' = N.heap
    /\ opc' = "prop"
    /\ UNCHANGED <<ofs, oin, onode, ocalls, oret>>
    /\ UNCHANGED dataVars
    /\ UNCHANGED outsideOcc

\* Updater::operator(): propagateBlockToCoarsestScale on the block, then the
\* propagation to its parent node
OccPropagate ==
    /\ opc = "prop"
    /\ LET N == PropagateBlockToCoarsestScale(OccM)
       IN /\ oblk' = N.blk
          /\ oheap' = N.heap
          /\ onode' = PropagateToParentNode(onode, N)
    /\ oin' = OccNoInput
    /\ oret' = "none"
    /\ opc' = "idle"
    /\ UNCHANGED <<ofs, ocalls>>
    /\ UNCHANGED dataVars
    /\ UNCHANGED outsideOcc

\* a caller reads a voxel of the block between two frames
OccDataCall ==
    /\ opc = "idle"
    /\ \E i \in QueryVoxels, scale_in \in Scales :
          dq' \in OccData(OccM, i, scale_in)
    /\ UNCHANGED occVars
    /\ UNCHANGED outsideOcc

-----------------------------------------------------------------------------
(***************************************************************************)
(* raycast (Occupancy): one ray, sampled every step_size                   *)
(***************************************************************************)

\* t_far, in steps
RayLen == 3
\* the positions on the ray that lie in the map
Positions == 0 .. RayLen

\* 1.f in the units of the field values, and step_size in the units of t
RayOne == 10
\* DataType::surface_boundary
SurfaceBoundary == 0
\* the field above which the loop asks for the interpolated value: -0.2f
InterpThreshold == -(RayOne \div 5)

\* the field of free space, of a voxel just below the boundary and of an
\* occupied voxel
RayFields == {-RayOne, -(RayOne \div 10), RayOne \div 2}

\* the map at one position: is_valid(getData(p)), get_field(getData(p)) and
\* whether getFieldInterp(p) has a value (it then is the field)
InvalidSample == [valid |-> FALSE, field |-> 0, interp |-> FALSE]
RaySamples == {InvalidSample} \cup [valid : {TRUE}, field : RayFields, interp : BOOLEAN]

\* an optional<field_t>
NoValue == [has |-> FALSE, v |-> 0]
Value(v) == [has |-> TRUE, v |-> v]

\* std::nullopt and an Eigen::Vector4f at distance t
NoResult == [some |-> FALSE, t |-> 0]
Result(t) == [some |-> TRUE, t |-> t]

\* find_valid_point(..., t, point_W): the value, and t and point_W as it
\* leaves them
RECURSIVE FindValidPoint(_, _, _)
FindValidPoint(m, t, point_W) ==
    IF t \in Positions /\ m[t].valid /\ m[t].interp
      THEN [value |-> Value(m[t].field), t |-> t, point_W |-> t]
    ELSE IF t + 1 > RayLen
      THEN [value |-> NoValue, t |-> t + 1, point_W |-> point_W]
    ELSE FindValidPoint(m, t + 1, point_W)

RayIdle ==
    /\ rmap = [p \in Positions |-> InvalidSample]
    /\ rpc = "idle"
    /\ rt = 0
    /\ rvalue_t = NoValue
    /\ rvalue_tt = NoValue
    /\ rpoint_t = 0
    /\ rpoint_tt = 0
    /\ rres = NoResult

\* a ray from the world origin through any map
RayStart ==
    /\ rmap \in [Positions -> RaySamples]
    /\ rpc = "idle"
    /\ rt = 0
    /\ rvalue_t = NoValue
    /\ rvalue_tt = NoValue
    /\ rpoint_t = 0
    /\ rpoint_tt = 0
    /\ rres = NoResult

\* raycast up to its loop: compute_map_intersection and advance_ray leave t at
\* some step before t_far or report that the ray meets nothing; the first
\* valid point is looked for from there
RayBegin ==
    /\ rpc = "idle"
    /\ \E start \in {-1} \cup (0 .. RayLen - 1) :
          IF start = -1
            THEN /\ rpc' = "done"
                 /\ rres' = NoResult
                 /\ UNCHANGED <<rt, rvalue_t, rpoint_t>>
            ELSE LET F == FindValidPoint(rmap, start, rpoint_t)
                 IN /\ rvalue_t' = F.value
                    /\ rpoint_t' = F.point_W
                    /\ rt' = F.t + 1
                    /\ rres' = NoResult
                    /\ rpc' = IF ~F.value.has THEN "done"
                              ELSE IF F.value.v <= SurfaceBoundary THEN "loop"
                              ELSE "done"
    /\ UNCHANGED <<rmap, rvalue_tt, rpoint_tt>>
    /\ UNCHANGED outsideRay

\* the invalid-data branch of the loop and the branch of a failed
\* interpolation: the next valid point is looked for; returned is what raycast
\* returns when there is none
RaySkip(returned) ==
    LET F == FindValidPoint(rmap, rt + 1, rpoint_t)
    IN /\ rvalue_t' = F.value
       /\ rpoint_t' = F.point_W
       /\ IF ~F.value.has
            THEN /\ rres' = returned
                 /\ rpc' = "done"
                 /\ rt' = F.t
          ELSE IF F.value.v > SurfaceBoundary
            THEN /\ rpc' = "check"
                 /\ rt' = F.t
                 /\ UNCHANGED rres
          ELSE /\ rpc' = "loop"
               /\ rt' = F.t + 1
               /\ UNCHANGED rres

\* one pass of for (; t < t_far; t += step_size)
RayStep ==
    /\ rpc = "loop"
    /\ IF rt >= RayLen
         THEN /\ rpc' = "check"
              /\ UNCHANGED <<rt, rvalue_t, rvalue_tt, rpoint_t, rpoint_tt, rres>>
       ELSE IF ~rmap[rt].valid
         THEN /\ RaySkip(Result(0))
              /\ UNCHANGED <<rvalue_tt, rpoint_tt>>
       ELSE IF rmap[rt].field > InterpThreshold /\ ~rmap[rt].interp
         THEN /\ rvalue_tt' = NoValue
              /\ rpoint_tt' = rt
              /\ RaySkip(NoResult)
       ELSE /\ rvalue_tt' = Value(rmap[rt].field)
            /\ rpoint_tt' = rt
            /\ IF rmap[rt].field > SurfaceBoundary
                 THEN /\ rpc' = "check"
                      /\ UNCHANGED <<rt, rvalue_t, rpoint_t, rres>>
                 ELSE /\ rvalue_t' = Value(rmap[rt].field)
                      /\ rpoint_t' = rt
                      /\ rt' = rt + 1
                      /\ rpc' = "loop"
                      /\ UNCHANGED rres
    /\ UNCHANGED rmap
    /\ UNCHANGED outsideRay

\* the test after the loop and the interpolated crossing; *value_tt of an
\* empty optional reads any value
RayCheck ==
    /\ rpc = "check"
    /\ \E value_tt \in (IF rvalue_tt.has THEN {rvalue_tt.v} ELSE RayFields) :
          rres' = IF value_tt > SurfaceBoundary /\ rvalue_t.v < SurfaceBoundary
                    THEN LET norm == IF rpoint_tt >= rpoint_t THEN rpoint_tt - rpoint_t
                                     ELSE rpoint_t - rpoint_tt
                         IN Result(rt * RayOne
                                   - (norm * RayOne * (value_tt - SurfaceBoundary))
                                       \div (value_tt - rvalue_t.v))
                    ELSE NoResult
    /\ rpc' = "done"
    /\ UNCHANGED <<rmap, rt, rvalue_t, rvalue_tt, rpoint_t, rpoint_tt>>
    /\ UNCHANGED outsideRay

-----------------------------------------------------------------------------
(***************************************************************************)
(* The integration scale of a block integrated before                      *)
(***************************************************************************)

\* BlockType::getMaxScale() of a block of eight voxels per side
BlockMaxScale == 3

\* what sensor_.computeIntegrationScale may return
ComputedRange == -1 .. BlockMaxScale + 1

\* a block integrated before (min_scale = current_scale at the least), the
\* answer of the sensor and the configuration
ScaleInputs ==
    [updater : {"tsdf", "updateBlock", "freeBlock"},
     last_scale : 0 .. BlockMaxScale,
     computed : ComputedRange,
     low_variance : BOOLEAN,
     free_space : BOOLEAN,
     fs_integr_scale : 0 .. BlockMaxScale]

ScaleNoInput ==
    [updater |-> "tsdf", last_scale |-> 0, computed |-> 0, low_variance |-> FALSE,
     free_space |-> FALSE, fs_integr_scale |-> 0]

ScaleStart ==
    /\ scin \in ScaleInputs
    /\ scin.updater = "tsdf" =>
           ~scin.low_variance /\ ~scin.free_space /\ scin.fs_integr_scale = 0
    /\ scin.updater = "freeBlock" => scin.low_variance
    /\ scpc = "idle"
    /\ scout = 0

ScaleIdle ==
    /\ scin = ScaleNoInput
    /\ scpc = "idle"
    /\ scout = 0

\* the scale the updater integrates the block at
ScaleChoose ==
    /\ scpc = "idle"
    /\ scout' = IF scin.updater = "tsdf"
                  THEN CurrScale(scin.computed, scin.last_scale)
                  ELSE RecommendedScaleAt(scin.computed, scin.last_scale, scin.last_scale,
                                          scin.low_variance, scin.free_space,
                                          scin.fs_integr_scale, BlockMaxScale)
    /\ scpc' = "done"
    /\ UNCHANGED scin
    /\ UNCHANGED outsideScale

-----------------------------------------------------------------------------
(***************************************************************************)
(* Occupancy updater above the blocks: freeNodeRecurse and propagateToRoot *)
(***************************************************************************)

\* The octree of the model: the root (depth 0), its first child (depth 1),
\* the eight children of that node (depth 2) and the blocks (depth 3) of the
\* first two of them.  An octant pointer is a number; NULL is no octant.
PRoot == 1
BlockDepth == 3
ChildSlots == 0 .. 7
BlockParents == {10, 11}
Octants == {PRoot, 2} \cup {10 + i : i \in ChildSlots}
             \cup {10 * n + i : n \in BlockParents, i \in ChildSlots}

IsBlock(o) == o >= 100
OctantParent(o) ==
    IF o = PRoot THEN NULL ELSE IF o = 2 THEN PRoot ELSE IF o < 100 THEN 2 ELSE o \div 10
OctantDepth(o) == IF o = PRoot THEN 0 ELSE IF o = 2 THEN 1 ELSE IF o < 100 THEN 2 ELSE 3
\* the octant a child slot of a node refers to once it is allocated
OctantChild(n, child_idx) ==
    IF n = PRoot THEN (IF child_idx = 0 THEN 2 ELSE NULL)
    ELSE IF n = 2 THEN 10 + child_idx
    ELSE IF n \in BlockParents THEN 10 * n + child_idx
    ELSE NULL

\* node.getChild(child_idx)
GetChild(S, n, child_idx) ==
    LET c == OctantChild(n, child_idx) IN IF c \in S.live THEN c ELSE NULL

RECURSIVE SubtreeOf(_, _)
SubtreeOf(S, n) ==
    LET cs == {GetChild(S, n, i) : i \in ChildSlots} \ {NULL}
    IN cs \cup UNION {SubtreeOf(S, c) : c \in cs}

\* config.min_occupancy and the test of propagateToRoot against 0.95 of it
MinOccupancy == LogOddMin
FreeEnough(d) == 100 * GetField(d) <= 95 * MinOccupancy

NodeDefault ==
    [min_data |-> OccDefaultData, max_data |-> OccDefaultData, timestamp |-> 0]

\* the minData() / maxData() of a block after updateBlock and the block
\* propagation, by what the frame saw in the block
BlockKinds == {"free", "occupied", "partial"}
BlockSummary(kind) ==
    LET free == [occupancy |-> LogOddMin, weight |-> 1, observed |-> TRUE] IN
    CASE kind = "free" -> [min_data |-> free, max_data |-> free]
      [] kind = "occupied" ->
           [min_data |-> free,
            max_data |-> [occupancy |-> LogOddMax, weight |-> 1, observed |-> TRUE]]
      [] kind = "partial" ->
           [min_data |-> [free EXCEPT !.observed = FALSE],
            max_data |-> [free EXCEPT !.observed = FALSE]]

\* updateBlock and the block propagation on a block: the summaries the
\* frame leaves; the observed flag of a summary is never cleared
UpdateBlockSummary(old, kind, frame) ==
    LET new == BlockSummary(kind) IN
    [min_data |-> [new.min_data EXCEPT !.observed = @ \/ old.min_data.observed],
     max_data |-> [new.max_data EXCEPT !.observed = @ \/ old.max_data.observed],
     timestamp |-> frame]

\* the accumulators of propagate_to_parent_node before the first child
NodePropStart ==
    [min_mean_occupancy |-> 0, min_weight |-> 0, min_occupancy |-> FltMax,
     min_data_count |-> 0,
     max_mean_occupancy |-> 0, max_weight |-> 0, max_occupancy |-> -FltMax,
     max_data_count |-> 0, observed_count |-> 0]

\* one round of the loop over the children, for a non-null child
NodeChildStep(acc, c) ==
    LET a1 == IF c.min_data.weight > 0 /\ GetField(c.min_data) < acc.min_occupancy
                THEN [acc EXCEPT !.min_mean_occupancy = c.min_data.occupancy,
                                 !.min_weight = c.min_data.weight,
                                 !.min_occupancy = GetField(c.min_data),
                                 !.min_data_count = @ + 1]
                ELSE acc
        a2 == IF c.max_data.weight > 0 /\ GetField(c.max_data) > a1.max_occupancy
                THEN [a1 EXCEPT !.max_mean_occupancy = c.max_data.occupancy,
                                !.max_weight = c.max_data.weight,
                                !.max_occupancy = GetField(c.max_data),
                                !.max_data_count = @ + 1]
                ELSE a1
    IN IF c.max_data.observed THEN [a2 EXCEPT !.observed_count = @ + 1] ELSE a2

RECURSIVE NodeChildLoop(_, _, _, _)
NodeChildLoop(S, n, child_idx, acc) ==
    IF child_idx = 8 THEN acc
    ELSE LET child_ptr == GetChild(S, n, child_idx) IN
         Then(IF child_ptr = NULL THEN acc ELSE NodeChildStep(acc, S.data[child_ptr]),
              LAMBDA a : NodeChildLoop(S, n, child_idx + 1, a))

\* a variant that takes one observed child as enough
NodeWriteAnyObserved(node, acc, timestamp) ==
    [min_data |->
        IF acc.min_data_count > 0
          THEN [occupancy |-> acc.min_mean_occupancy, weight |-> acc.min_weight,
                observed |-> node.min_data.observed \/ acc.observed_count >= 1]
          ELSE node.min_data,
     max_data |->
        IF acc.max_data_count > 0
          THEN [occupancy |-> acc.max_mean_occupancy, weight |-> acc.max_weight,
                observed |-> node.max_data.observed \/ acc.observed_count >= 1]
          ELSE node.max_data,
     timestamp |-> timestamp]

\* what propagate_to_parent_node writes to the node
NodeWrite(node, acc, timestamp) ==
    [min_data |->
        IF acc.min_data_count > 0
          THEN [occupancy |-> acc.min_mean_occupancy, weight |-> acc.min_weight,
                observed |-> node.min_data.observed \/ acc.observed_count = 8]
          ELSE node.min_data,
     max_data |->
        IF acc.max_data_count > 0
          THEN [occupancy |-> acc.max_mean_occupancy, weight |-> acc.max_weight,
                observed |-> node.max_data.observed \/ acc.observed_count = 8]
          ELSE node.max_data,
     timestamp |-> timestamp]

\* propagate_to_parent_node(octant_ptr, timestamp), called as
\* propagateToNoteAtCoarserScale by the updater; its result is
\* S.data[n].max_data
PropagateToNoteAtCoarserScale(S, n, timestamp) ==
    Then(NodeChildLoop(S, n, 0, NodePropStart),
         LAMBDA acc : [S EXCEPT !.data[n] = NodeWrite(@, acc, timestamp)])

\* Octree::deleteChildren(parent_ptr)
DeleteChildren(S, n) ==
    LET gone == SubtreeOf(S, n)
    IN [S EXCEPT !.live = @ \ gone, !.freed = @ \cup gone]

\* a variant that prunes every observed node
PruneIfObserved(S, n, node_data) ==
    IF node_data.observed THEN DeleteChildren(S, n) ELSE S

\* the test of propagateToRoot on the data node_data returned by the
\* propagation to node n
PruneIfFree(S, n, node_data) ==
    IF node_data.observed /\ FreeEnough(node_data) THEN DeleteChildren(S, n) ELSE S

\* Octree::allocate / allocateAll: the new octant starts from the data of its
\* parent
AllocateAll(S, n, child_idx) ==
    LET c == OctantChild(n, child_idx) IN
    IF c \in S.live THEN S
    ELSE [S EXCEPT !.live = @ \cup {c},
                   !.data[c] = [min_data |-> S.data[n].max_data,
                                max_data |-> S.data[n].max_data,
                                timestamp |-> 0]]

\* updater::freeNode(node_data, config) and freeBlock followed by the block
\* propagation: the free-space sample is applied to the data
FreeNode(d) ==
    [d EXCEPT !.min_data = OccFieldUpdate(@, LogOddMin),
              !.max_data = OccFieldUpdate(@, LogOddMin)]

RECURSIVE FreeNodeRecurse(_, _, _)
RECURSIVE FreeChildLoop(_, _, _, _)
\* freeNodeRecurse(octant_ptr, depth)
FreeNodeRecurse(S, n, depth) ==
    IF \A i \in ChildSlots : GetChild(S, n, i) = NULL
      THEN [S EXCEPT !.data[n] = FreeNode(@),
                     !.node_set[depth - 1] = @ \cup {OctantParent(n)}]
      ELSE FreeChildLoop(S, n, depth, 0)

\* the loop over child_idx in the else branch of freeNodeRecurse
FreeChildLoop(S, n, depth, child_idx) ==
    IF child_idx = 8 THEN S
    ELSE LET child_ptr == OctantChild(n, child_idx) IN
         Then(AllocateAll(S, n, child_idx),
              LAMBDA A :
                Then(IF IsBlock(child_ptr)
                       THEN [A EXCEPT !.data[child_ptr] = FreeNode(@),
                                      !.node_set[depth - 1] =
                                          @ \cup {OctantParent(child_ptr)},
                                      !.freed_block_list = @ \cup {child_ptr}]
                       ELSE FreeNodeRecurse(A, child_ptr, depth + 1),
                     LAMBDA B : FreeChildLoop(B, n, depth, child_idx + 1)))

\* the loop of operator() over allocation_list.node_list
RECURSIVE FreeNodeList(_, _)
FreeNodeList(S, node_list) ==
    IF node_list = {} THEN S
    ELSE LET n == CHOOSE m \in node_list : TRUE IN
         Then(FreeNodeRecurse(S, n, OctantDepth(n)),
              LAMBDA A : FreeNodeList(A, node_list \ {n}))

\* the state of the tree as one record
TreeS ==
    [live |-> plive, data |-> pdata, node_set |-> node_set,
     freed_block_list |-> freed_block_list, freed |-> pfreed]

EmptyNodeSet == [d \in 0 .. BlockDepth - 1 |-> {}]

\* the number of frames
MaxTreeFrames == 2

\* A tree as earlier frames leave it.  P10 has one or eight blocks, P11 is a
\* leaf or has eight free blocks, the other children of node 2 are leaves
\* observed free or not allocated; every node carries the aggregate of its
\* children.
TreeShapes ==
    {[b10 |-> b, k0 |-> k0, k1 |-> k1, p11 |-> p, fill |-> f] :
        b \in {1, 8}, k0 \in BlockKinds, k1 \in {"free", "partial"},
        p \in {"none", "leaf", "blocks"}, f \in BOOLEAN}

ShapeLive(sh) ==
    {PRoot, 2, 10} \cup {100 + i : i \in 0 .. sh.b10 - 1}
      \cup (IF sh.p11 = "none" THEN {} ELSE {11})
      \cup (IF sh.p11 = "blocks" THEN {110 + i : i \in ChildSlots} ELSE {})
      \cup (IF sh.fill THEN {10 + i : i \in 2 .. 7} ELSE {})

LeafData ==
    [NodeDefault EXCEPT !.min_data = OccFreeData, !.max_data = OccFreeData]

ShapeData(sh) ==
    [o \in Octants |->
        IF o \notin ShapeLive(sh) THEN NodeDefault
        ELSE IF o = 100 THEN BlockSummary(sh.k0) @@ [timestamp |-> 0]
        ELSE IF IsBlock(o) /\ o < 110 THEN BlockSummary(sh.k1) @@ [timestamp |-> 0]
        ELSE IF IsBlock(o) THEN BlockSummary("free") @@ [timestamp |-> 0]
        ELSE IF o \in 11 .. 17 THEN LeafData
        ELSE NodeDefault]

\* the aggregates of the nodes, bottom up, and the pruning, as the
\* propagateToRoot of an earlier frame left them
SettleNode(S, n) ==
    IF \A i \in ChildSlots : GetChild(S, n, i) = NULL THEN S
    ELSE Then(PropagateToNoteAtCoarserScale(S, n, 0),
              LAMBDA A : [PruneIfFree(A, n, A.data[n].max_data) EXCEPT !.freed = {}])

Settled(S) ==
    Then(SettleNode(S, 11),
         LAMBDA A :
           Then(SettleNode(A, 10),
                LAMBDA B :
                  Then(SettleNode(B, 2),
                       LAMBDA C : PropagateToNoteAtCoarserScale(C, PRoot, 0))))

ShapeTree(sh) ==
    Settled([live |-> ShapeLive(sh), data |-> ShapeData(sh),
             node_set |-> EmptyNodeSet, freed_block_list |-> {}, freed |-> {}])

TreeStartTrees == {ShapeTree(sh) : sh \in TreeShapes}

TreeNoInput == [node_list |-> {}, block_list |-> {}, kind |-> "free"]

TreeStart ==
    /\ \E T \in TreeStartTrees : plive = T.live /\ pdata = T.data
    /\ pframe = 0
    /\ ppc = "idle"
    /\ pin = TreeNoInput
    /\ node_set = EmptyNodeSet
    /\ freed_block_list = {}
    /\ pd = 0
    /\ pit = {}
    /\ plog = <<>>
    /\ pfreed = {}

TreeIdle ==
    /\ plive = {PRoot}
    /\ pdata = [o \in Octants |-> NodeDefault]
    /\ pframe = 0
    /\ ppc = "idle"
    /\ pin = TreeNoInput
    /\ node_set = EmptyNodeSet
    /\ freed_block_list = {}
    /\ pd = 0
    /\ pit = {}
    /\ plog = <<>>
    /\ pfreed = {}

\* allocation_list of a frame: nodes seen entirely free, none below another,
\* and blocks outside them; the blocks are allocated before the updater runs
TreeInputs ==
    {[node_list |-> nl, block_list |-> bl, kind |-> k] :
        nl \in {{}, {2}, {10}, {11}},
        bl \in {{}, {100}, {110}},
        k \in BlockKinds}

InputAllowed(in) ==
    /\ in.block_list = {} => in.kind = "free"
    /\ in.node_list \subseteq plive
    /\ \A b \in in.block_list :
          /\ OctantParent(b) \in plive
          /\ OctantParent(b) \notin in.node_list
          /\ 2 \notin in.node_list

RECURSIVE AllocateBlocks(_, _)
AllocateBlocks(S, block_list) ==
    IF block_list = {} THEN S
    ELSE LET b == CHOOSE c \in block_list : TRUE IN
         Then(AllocateAll(S, OctantParent(b), b % 10),
              LAMBDA A : AllocateBlocks(A, block_list \ {b}))

\* the allocation of the frame's blocks and the construction of the updater
TreeBegin ==
    /\ ppc = "idle"
    /\ pframe < MaxTreeFrames
    /\ \E in \in TreeInputs :
          /\ InputAllowed(in)
          /\ pin' = in
          /\ LET A == AllocateBlocks(TreeS, in.block_list)
             IN plive' = A.live /\ pdata' = A.data
    /\ pframe' = pframe + 1
    /\ node_set' = EmptyNodeSet
    /\ freed_block_list' = {}
    /\ plog' = <<>>
    /\ pfreed' = {}
    /\ ppc' = "nodes"
    /\ UNCHANGED <<pd, pit>>
    /\ UNCHANGED outsideTree

\* operator(): the loop over node_list
TreeNodes ==
    /\ ppc = "nodes"
    /\ LET A == FreeNodeList(TreeS, pin.node_list)
       IN /\ plive' = A.live
          /\ pdata' = A.data
          /\ node_set' = A.node_set
          /\ freed_block_list' = A.freed_block_list
    /\ ppc' = "blocks"
    /\ UNCHANGED <<pframe, pin, pd, pit, plog, pfreed>>
    /\ UNCHANGED outsideTree

\* operator(): updateBlock on block_list and the block propagation of
\* block_list and freed_block_list_
TreeBlocks ==
    /\ ppc = "blocks"
    /\ pdata' = [o \in Octants |->
                    IF o \in pin.block_list
                      THEN UpdateBlockSummary(pdata[o], pin.kind, pframe)
                      ELSE pdata[o]]
    /\ ppc' = "root"
    /\ UNCHANGED <<plive, pframe, pin, node_set, freed_block_list, pd, pit, plog, pfreed>>
    /\ UNCHANGED outsideTree

\* propagateToRoot: the parents of the blocks of block_list
TreeRootBegin ==
    /\ ppc = "root"
    /\ node_set' = [node_set EXCEPT ![BlockDepth - 1] =
                       @ \cup {OctantParent(b) : b \in pin.block_list}]
    /\ pd' = BlockDepth - 1
    /\ pit' = node_set'[BlockDepth - 1]
    /\ ppc' = "loop"
    /\ UNCHANGED <<plive, pdata, pframe, pin, freed_block_list, plog, pfreed>>
    /\ UNCHANGED outsideTree

\* the body of the loop over node_set_[d] for one live octant
VisitNode(S, n, d, frame) ==
    IF S.data[n].timestamp = frame \/ OctantParent(n) = NULL
      THEN [S |-> S, aggregated |-> FALSE]
      ELSE Then(PropagateToNoteAtCoarserScale(S, n, frame),
                LAMBDA A :
                  Then([A EXCEPT !.node_set[d - 1] = @ \cup {OctantParent(n)}],
                       LAMBDA B :
                         [S |-> PruneIfFree(B, n, B.data[n].max_data),
                          aggregated |-> TRUE]))

\* the same body for an octant released earlier in the loop: the reads of the
\* released memory either end the round or find the octant as it was left
VisitReleased(S, n, d, frame) ==
    {[S |-> S, aggregated |-> FALSE],
     [S |-> [S EXCEPT !.data[n].timestamp = frame,
                      !.node_set[d - 1] = @ \cup {OctantParent(n)}],
      aggregated |-> TRUE]}

\* propagateToRoot: one round of the loop over node_set_[d]; the set is
\* ordered by pointer value, which is any order
TreeRootStep ==
    /\ ppc = "loop"
    /\ \E n \in pit :
          /\ pit' = pit \ {n}
          /\ \E V \in (IF n \in plive THEN {VisitNode(TreeS, n, pd, pframe)}
                       ELSE VisitReleased(TreeS, n, pd, pframe)) :
                /\ plive' = V.S.live
                /\ pdata' = V.S.data
                /\ node_set' = V.S.node_set
                /\ pfreed' = V.S.freed
                /\ plog' = IF V.aggregated THEN Append(plog, n) ELSE plog
    /\ UNCHANGED <<pframe, ppc, pin, freed_block_list, pd>>
    /\ UNCHANGED outsideTree

\* propagateToRoot: d-- while d > 0
TreeRootNext ==
    /\ ppc = "loop"
    /\ pit = {}
    /\ pd - 1 > 0
    /\ pd' = pd - 1
    /\ pit' = node_set[pd - 1]
    /\ UNCHANGED <<plive, pdata, pframe, ppc, pin, node_set, freed_block_list, plog, pfreed>>
    /\ UNCHANGED outsideTree

\* propagateToRoot: the root after the loop
TreeRootEnd ==
    /\ ppc = "loop"
    /\ pit = {}
    /\ pd - 1 <= 0
    /\ pdata' = PropagateToNoteAtCoarserScale(TreeS, PRoot, pframe).data
    /\ plog' = Append(plog, PRoot)
    /\ ppc' = "idle"
    /\ UNCHANGED <<plive, pframe, pin, node_set, freed_block_list, pd, pit, pfreed>>
    /\ UNCHANGED outsideTree

-----------------------------------------------------------------------------
(***************************************************************************)
(* Updater<TSDF, Res::Multi>::operator(): the parallel loop over the       *)
(* blocks of a frame and the voxel arrays each iteration touches           *)
(***************************************************************************)

\* allocated blocks in a row along x; block b touches b - 1 and b + 1
NumParBlocks == 3
ParBlocks == 1 .. NumParBlocks

\* visitor::getFieldInterp at the sample point of a child voxel: the blocks
\* that hold the corners of the interpolation.  The sample point of a child
\* lies between the sample points of the coarser scale, so for the children
\* on a face of the block one corner is in the block across that face.
InterpCorners(b) == {b - 1, b, b + 1} \cap ParBlocks

ParStart ==
    /\ ulist \in (SUBSET ParBlocks) \ {{}}
    /\ ufresh \in [ParBlocks -> BOOLEAN]
    /\ upc = [b \in ParBlocks |-> IF b \in ulist THEN "start" ELSE "none"]
    /\ uacc = {}

ParIdle ==
    /\ ulist = {}
    /\ ufresh = [b \in ParBlocks |-> FALSE]
    /\ upc = [b \in ParBlocks |-> "none"]
    /\ uacc = {}

\* setTimeStamp, the choice of curr_scale and setMinScale
ParBegin(b) ==
    /\ upc[b] = "start"
    /\ \E lower \in BOOLEAN :
          upc' = [upc EXCEPT ![b] = IF lower THEN "down" ELSE "update"]
    /\ uacc' = uacc \cup {<<b, b, "write">>}
    /\ UNCHANGED <<ulist, ufresh>>
    /\ UNCHANGED outsidePar

\* curr_scale < last_curr_scale: propagateBlockDown with child_down_funct,
\* which adds the parent's delta to a weighted child and seeds a child of
\* weight 0 from getFieldInterp(octree, child_sample_coord_f, ...)
ParDown(b) ==
    /\ upc[b] = "down"
    /\ uacc' = uacc \cup {<<b, b, "read">>, <<b, b, "write">>}
                    \cup (IF ufresh[b] THEN {<<b, c, "read">> : c \in InterpCorners(b)}
                          ELSE {})
    /\ \E interp_ok \in BOOLEAN :
          ufresh' = [ufresh EXCEPT ![b] = @ /\ ~interp_ok]
    /\ upc' = [upc EXCEPT ![b] = "update"]
    /\ UNCHANGED ulist
    /\ UNCHANGED outsidePar

\* setCurrentScale and the voxel loop: getDataUnion, updateVoxel, setDataUnion
ParUpdate(b) ==
    /\ upc[b] = "update"
    /\ uacc' = uacc \cup {<<b, b, "read">>, <<b, b, "write">>}
    /\ upc' = [upc EXCEPT ![b] = "up"]
    /\ UNCHANGED <<ulist, ufresh>>
    /\ UNCHANGED outsidePar

\* propagateBlockUp of the block
ParUp(b) ==
    /\ upc[b] = "up"
    /\ uacc' = uacc \cup {<<b, b, "read">>, <<b, b, "write">>}
    /\ upc' = [upc EXCEPT ![b] = "done"]
    /\ UNCHANGED <<ulist, ufresh>>
    /\ UNCHANGED outsidePar

-----------------------------------------------------------------------------
(***************************************************************************)
(* The calls on one occupancy block, in any order                          *)
(***************************************************************************)

\* the number of arrays of the heap that are allocated
LiveCount(heap) == Cardinality({h \in Handles : heap[h].live})

\* the largest number of arrays one call allocates (allocateDownTo from the
\* coarsest scale to scale 0)
MaxNewPerCall == 3 * MaxScale

LifeM == [blk |-> lblk, heap |-> lheap]

\* the call reads the pyramids only inside their bounds
InPyramid(blk, scale) == MaxScale - scale < Len(blk.block_data)

LifeStart ==
    /\ \E d \in {OccDefaultData, OccFreeData} :
          LET W == OccNewBlock(d) IN lblk = W.blk /\ lheap = W.heap
    /\ lop = "new"

LifeIdle ==
    /\ lblk = OccNewBlock(OccDefaultData).blk
    /\ lheap = EmptyHeap
    /\ lop = "none"

\* the heap has room for the arrays of one more call
HeapHasRoom == LiveCount(lheap) + MaxNewPerCall <= MaxHandles

LifeStep(M, op) ==
    /\ lblk' = M.blk
    /\ lheap' = M.heap
    /\ lop' = op
    /\ UNCHANGED outsideLife

LifeAllocateDownTo(s) ==
    /\ HeapHasRoom
    /\ LifeStep(AllocateDownTo(LifeM, s), "allocateDownTo")

LifeDeleteUpTo(s) ==
    /\ HeapHasRoom
    /\ InPyramid(lblk, lblk.min_scale)
    /\ LifeStep(DeleteUpTo(LifeM, s), "deleteUpTo")

LifeInitBuffer(s) ==
    /\ HeapHasRoom
    /\ s >= lblk.current_scale => InPyramid(lblk, s)
    /\ LifeStep(InitBuffer(LifeM, s), "initBuffer")

LifeResetBuffer ==
    /\ HeapHasRoom
    /\ LifeStep(ResetBuffer(LifeM), "resetBuffer")

LifeIncrBufferIntegrCount ==
    /\ HeapHasRoom
    /\ lblk.buffer_data # NULL
    /\ lblk.buffer_integr_count < SwitchIntegrCount
    /\ LifeStep([LifeM EXCEPT !.blk = IncrBufferIntegrCount(@, TRUE)],
                "incrBufferIntegrCount")

\* switchData reads the voxels of the buffer: the call is made when the buffer
\* is an allocated array of the size of its scale
LifeSwitchData ==
    /\ HeapHasRoom
    /\ lblk.buffer_data # NULL =>
          /\ lheap[lblk.buffer_data].live
          /\ DOMAIN lheap[lblk.buffer_data].v = VoxIdx(lblk.buffer_scale)
          /\ InPyramid(lblk, lblk.current_scale)
    /\ LifeStep(SwitchData(LifeM).M, "switchData")

-----------------------------------------------------------------------------
(***************************************************************************)
(* Octree::deleteChildren, in its two definitions                          *)
(***************************************************************************)

\* the tree as deleteChildren sees it
DelS(live) == [live |-> live, freed |-> {}]

\* include/se/map: the octants handed to memory_pool_.deleteBlock / deleteNode
\* by deleteChildren(n), in order; from child slot child_idx on
RECURSIVE ReleaseOrder(_, _, _)
ReleaseOrder(S, n, child_idx) ==
    IF child_idx > 7 THEN <<>>
    ELSE LET child_ptr == GetChild(S, n, child_idx)
             here == IF child_ptr = NULL THEN <<>>
                     ELSE IF IsBlock(child_ptr) THEN <<child_ptr>>
                     ELSE ReleaseOrder(S, child_ptr, 0) \o <<child_ptr>>
         IN here \o ReleaseOrder(S, n, child_idx + 1)

\* se_map: deleteChildren(n) up to the first read of released memory or of a
\* null pointer.  For a child that is a node the inner loop calls
\* deleteChildren on every child slot of parent_ptr, then parent_ptr itself is
\* deleted; the outer loop then goes on reading parent_ptr.
RECURSIVE OldDeleteChildren(_, _, _)
RECURSIVE OldInnerLoop(_, _, _)
OldInnerLoop(S, n, child_idx) ==
    IF child_idx > 7 THEN [log |-> <<>>, ub |-> FALSE]
    ELSE LET c == GetChild(S, n, child_idx) IN
         IF c = NULL THEN [log |-> <<>>, ub |-> TRUE]
         ELSE LET first == OldDeleteChildren(S, c, 0) IN
              IF first.ub THEN first
              ELSE LET rest == OldInnerLoop(S, n, child_idx + 1)
                   IN [log |-> first.log \o rest.log, ub |-> rest.ub]

OldDeleteChildren(S, n, child_idx) ==
    IF child_idx > 7 THEN [log |-> <<>>, ub |-> FALSE]
    ELSE LET octant_ptr == GetChild(S, n, child_idx) IN
         IF octant_ptr = NULL THEN OldDeleteChildren(S, n, child_idx + 1)
         ELSE IF IsBlock(octant_ptr)
           THEN LET rest == OldDeleteChildren(S, n, child_idx + 1)
                IN [log |-> <<octant_ptr>> \o rest.log, ub |-> rest.ub]
           ELSE LET inner == OldInnerLoop(S, n, 0)
                IN IF inner.ub THEN inner
                   ELSE [log |-> inner.log \o <<n>>, ub |-> TRUE]

\* the trees the call is made on: node 2 under the root, some of its eight
\* child nodes, some blocks under the first two of them
DelNodeSets == {{}, {10}, {11}, {10, 11}, {10, 11, 12}, {10 + i : i \in ChildSlots}}
DelBlockSets == {{}, {100}, {100, 101}, {110}, {100, 110}, {100, 101, 110, 117}}
DelTrees ==
    {{PRoot}} \cup
    UNION {{{PRoot, 2} \cup N \cup B :
              B \in {X \in DelBlockSets : \A o \in X : OctantParent(o) \in N}} :
           N \in DelNodeSets}

DelStart ==
    /\ dimpl \in {"map", "se_map"}
    /\ dtree \in DelTrees
    /\ dn \in {n \in dtree : ~IsBlock(n)}
    /\ dpc = "call"
    /\ dlog = <<>>
    /\ dub = FALSE

DelIdle ==
    /\ dimpl = "map"
    /\ dtree = {PRoot}
    /\ dn = PRoot
    /\ dpc = "done"
    /\ dlog = <<>>
    /\ dub = FALSE

\* deleteChildren(dn) of include/se/map
DelCall ==
    /\ dpc = "call"
    /\ dimpl = "map"
    /\ dlog' = ReleaseOrder(DelS(dtree), dn, 0)
    /\ dtree' = DeleteChildren(DelS(dtree), dn).live
    /\ dub' = FALSE
    /\ dpc' = "done"
    /\ UNCHANGED <<dimpl, dn, outsideDel>>

\* deleteChildren(dn) of se_map.  Once the call has read released memory or a
\* null pointer it may stop there or release one more octant.
DelCallOld ==
    /\ dpc = "call"
    /\ dimpl = "se_map"
    /\ LET R == OldDeleteChildren(DelS(dtree), dn, 0) IN
          /\ dub' = R.ub
          /\ \E more \in (IF R.ub THEN {<<>>} \cup {<<o>> : o \in dtree} ELSE {<<>>}) :
                /\ dlog' = R.log \o more
                /\ dtree' = dtree \ Range(dlog')
    /\ dpc' = "done"
    /\ UNCHANGED <<dimpl, dn, outsideDel>>

-----------------------------------------------------------------------------
(***************************************************************************)
(* Specifications                                                          *)
(***************************************************************************)

\* no data() call yet
DataIdle == dq = NoQuery

InitAlloc == AllocStart /\ TsdfIdle /\ OccIdle /\ RayIdle /\ TreeIdle /\ ScaleIdle /\ DataIdle /\ ParIdle /\ LifeIdle /\ DelIdle

NextAlloc ==
    \E w \in Workers :
        \/ AllocCall(w)
        \/ AllocEnter(w)
        \/ AllocPool(w)
        \/ AllocAabbRead(w)
        \/ AllocAabbWrite(w)
        \/ AllocSetChild(w)

SpecAlloc == InitAlloc /\ [][NextAlloc]_vars

\* the allocator before its first call, with a parent of blocks
AllocIdle ==
    /\ psize = 2
    /\ child = [i \in ChildIdx |-> NULL]
    /\ pool = <<>>
    /\ lock = 0
    /\ aabb = {}
    /\ wpc = [w \in Workers |-> "idle"]
    /\ widx = [w \in Workers |-> 0]
    /\ wptr = [w \in Workers |-> NULL]
    /\ wbox = [w \in Workers |-> {}]
    /\ wcalls = [w \in Workers |-> 0]
    /\ wseen = {}

InitTsdf == TsdfStart /\ AllocIdle /\ OccIdle /\ RayIdle /\ TreeIdle /\ ScaleIdle /\ DataIdle /\ ParIdle /\ LifeIdle /\ DelIdle

NextTsdf == TsdfBegin \/ TsdfUpdate \/ TsdfUp

SpecTsdf == InitTsdf /\ [][NextTsdf]_vars

InitOcc == OccStart /\ AllocIdle /\ TsdfIdle /\ RayIdle /\ TreeIdle /\ ScaleIdle /\ DataIdle /\ ParIdle /\ LifeIdle /\ DelIdle

NextOcc == OccBegin \/ OccSwitch \/ OccCurrent \/ OccPropagate \/ OccDataCall

SpecOcc == InitOcc /\ [][NextOcc]_vars

InitRay == RayStart /\ AllocIdle /\ TsdfIdle /\ OccIdle /\ TreeIdle /\ ScaleIdle /\ DataIdle /\ ParIdle /\ LifeIdle /\ DelIdle

NextRay == RayBegin \/ RayStep \/ RayCheck

SpecRay == InitRay /\ [][NextRay]_vars

InitTree == TreeStart /\ AllocIdle /\ TsdfIdle /\ OccIdle /\ RayIdle /\ ScaleIdle /\ DataIdle /\ ParIdle /\ LifeIdle /\ DelIdle

NextTree ==
    TreeBegin \/ TreeNodes \/ TreeBlocks \/ TreeRootBegin \/ TreeRootStep
      \/ TreeRootNext \/ TreeRootEnd

SpecTree == InitTree /\ [][NextTree]_vars

InitScale == ScaleStart /\ AllocIdle /\ TsdfIdle /\ OccIdle /\ RayIdle /\ TreeIdle /\ DataIdle /\ ParIdle /\ LifeIdle /\ DelIdle

NextScale == ScaleChoose

SpecScale == InitScale /\ [][NextScale]_vars

InitPar == ParStart /\ AllocIdle /\ TsdfIdle /\ OccIdle /\ RayIdle /\ TreeIdle /\ ScaleIdle /\ DataIdle /\ LifeIdle /\ DelIdle

NextPar == \E b \in ParBlocks : ParBegin(b) \/ ParDown(b) \/ ParUpdate(b) \/ ParUp(b)

SpecPar == InitPar /\ [][NextPar]_vars

InitLife == LifeStart /\ AllocIdle /\ TsdfIdle /\ OccIdle /\ RayIdle /\ TreeIdle /\ ScaleIdle /\ DataIdle /\ ParIdle /\ DelIdle

NextLife == \/ \E s \in Scales : LifeAllocateDownTo(s) \/ LifeDeleteUpTo(s) \/ LifeInitBuffer(s)
            \/ LifeResetBuffer
            \/ LifeIncrBufferIntegrCount
            \/ LifeSwitchData

SpecLife == InitLife /\ [][NextLife]_vars

InitDel == DelStart /\ AllocIdle /\ TsdfIdle /\ OccIdle /\ RayIdle /\ TreeIdle /\ ScaleIdle /\ DataIdle /\ LifeIdle /\ ParIdle

NextDel == DelCall \/ DelCallOld

SpecDel == InitDel /\ [][NextDel]_vars

-----------------------------------------------------------------------------
(***************************************************************************)
(* Properties of the TSDF updaters                                         *)
(***************************************************************************)

\* the blocks the frame just integrated has stamped
StampedBlocks == {b \in TBlocks : ts[b] = tframe}

\* C3: once the updater has returned for frame f, every ancestor of an
\* updated block, up to the root, has a timestamp of at least f.
C3_AncestorsStamped ==
    (tpc = "idle" /\ tframe >= 1) =>
        \A b \in StampedBlocks : \A a \in TAncestors(b) : ts[a] >= tframe

\* C6: the voxel update of a frame raises the weight of a visited voxel whose
\* sdf exceeds -tau to min(weight + 1, max_weight) and leaves the weight of a
\* visited voxel at or below -tau as it was.
C6_WeightStep ==
    [][tpc = "update" =>
        \A b \in tin.list :
            LET s == tblk[b].current_scale IN
            \A i \in VoxIdx(s) :
                ~Skipped(tin.mask, i, s) =>
                    tblk'[b].data[s][i].weight =
                        IF Sdf(tin.d, i, s) > -Tau
                          THEN Min2(tblk[b].data[s][i].weight + 1, MaxWeight)
                          ELSE tblk[b].data[s][i].weight]_vars

\* a multi-res update has saturated the weight of an in-band voxel and left
\* the weight of an out-of-band voxel of the same block alone
C6_Witness ==
    /\ tpc = "up"
    /\ tres = "multi"
    /\ \E b \in tin.list :
        LET s == tblk[b].current_scale IN
        /\ \E i \in VoxIdx(s) :
              /\ ~Skipped(tin.mask, i, s)
              /\ Sdf(tin.d, i, s) > -Tau
              /\ tblk[b].data[s][i].weight = MaxWeight
        /\ \E j \in VoxIdx(s) :
              /\ ~Skipped(tin.mask, j, s)
              /\ Sdf(tin.d, j, s) <= -Tau

\* C7: between multi-res integrations every voxel of every scale holds a value
\* in [-1, 1] and a weight in [0, max_weight].
C7_FieldInRange ==
    (tpc = "idle" /\ tres = "multi") =>
        \A b \in TBlocks : \A s \in Scales : \A i \in VoxIdx(s) :
            /\ tblk[b].data[s][i].tsdf >= -FieldOne
            /\ tblk[b].data[s][i].tsdf <= FieldOne
            /\ tblk[b].data[s][i].weight >= 0
            /\ tblk[b].data[s][i].weight <= MaxWeight

\* C9: the timestamp of a block never decreases from one frame to the next.
C9_BlockStampMonotone ==
    [][\A b \in TBlocks : ts'[b] >= ts[b]]_vars

\* a block has been stamped by a second frame
C9_Witness ==
    /\ tframe >= 2
    /\ \E b \in TBlocks : ts[b] = tframe /\ b \in tin.list


\* the eight children of every parent voxel above scale cs have one weight
SameWeightChildren(blk, cs) ==
    \A p \in VoxIdx(cs + 1) :
        \A i, j \in ChildrenOf(p, cs + 1) : blk.data[cs][i].weight = blk.data[cs][j].weight

\* propagateBlockUp from scale cs, then propagateBlockDown back to cs
UpThenDown(blk, cs, interp_ok) ==
    PropagateBlockDown(PropagateBlockUp(blk, cs), MaxScale, cs, interp_ok)

\* C13: for a TSDF block whose eight children of each parent all have the
\* same weight, up-propagation immediately followed by down-propagation
\* returns every finer-scale voxel to its original value and weight.
C13_UpDownRoundTrip ==
    \A b \in TBlocks :
        (tres = "multi" /\ tblk[b].current_scale < MaxScale
           /\ SameWeightChildren(tblk[b], tblk[b].current_scale))
          => \A interp_ok \in BOOLEAN :
                UpThenDown(tblk[b], tblk[b].current_scale, interp_ok)
                    .data[tblk[b].current_scale]
                  = tblk[b].data[tblk[b].current_scale]

\* a block integrated at scale 0 with all eight voxels weighted alike, and
\* up-propagated
C13_Witness ==
    \E b \in TBlocks :
        /\ tres = "multi" /\ tpc = "idle"
        /\ tblk[b].current_scale = 0
        /\ SameWeightChildren(tblk[b], 0)
        /\ \A i \in VoxIdx(0) : tblk[b].data[0][i].weight > 0
        /\ tblk[b].data[1][0].weight > 0
        /\ tblk[b].data[1][0].tsdf # 0

\* block b was rescaled from scale s + 1 to scale s by this step
Lowered(b) == tres = "multi" /\ tblk'[b].current_scale = tblk[b].current_scale - 1

\* C14: when the multi-res TSDF updater lowers a block's integration scale
\* from s + 1 to s, every scale-s voxel whose scale-(s + 1) parent had weight
\* w > 0 has weight >= w after the down-propagation, on the seed path (child
\* weight was zero) and on the delta path (child weight was non-zero).
C14_NoWeightLost ==
    [][\A b \in TBlocks :
          Lowered(b) =>
            LET s == tblk'[b].current_scale IN
            \A i \in VoxIdx(s) :
                LET w == tblk[b].data[s + 1][ParentIdx(i, s)].weight
                IN w > 0 => tblk'[b].data[s][i].weight >= w]_vars

\* the frame a step belongs to: its blocks and the voxels it skips
FrameIn == IF tpc = "idle" THEN tin' ELSE tin

\* the voxels of block b that the frame skips at the scale the frame
\* integrates the block at keep their value and weight in this step
SkippedKept(b) ==
    LET s == tblk'[b].current_scale IN
    \A i \in VoxIdx(s) :
        Skipped(FrameIn.mask, i, s) => tblk'[b].data[s][i] = tblk[b].data[s][i]

\* C17 as stated: a voxel skipped by the single-res or the multi-res updater
\* (beyond the far distance, projection failed, depth below the near plane)
\* has the value and weight it had before the frame, i.e. no step of the
\* frame changes them.
C17_SkippedUnchangedInFrame ==
    [][\A b \in TBlocks : b \in FrameIn.list => SkippedKept(b)]_vars

\* C17: the voxel loop and the up-propagation leave the value and weight of
\* a skipped voxel unchanged, and so does the whole frame unless the frame
\* lowers the scale of the block (the down-propagation then writes the
\* voxels of the finer scale before the loop runs).
C17_SkippedUnchanged ==
    [][\A b \in TBlocks :
          (b \in FrameIn.list /\ ~(tblk'[b].current_scale < tblk[b].current_scale))
              => SkippedKept(b)]_vars

\* a frame skipped voxel 0 of a block and integrated voxel 1
C17_Witness ==
    /\ tpc = "up"
    /\ tin.mask = "x0"
    /\ \E b \in tin.list :
          /\ tblk[b].current_scale = 0
          /\ tblk[b].data[0][0].weight = 0
          /\ tblk[b].data[0][1].weight > 0


-----------------------------------------------------------------------------
(***************************************************************************)
(* Properties of the occupancy updater                                     *)
(***************************************************************************)

\* the voxels of the current scale below voxel p of scale s
RECURSIVE Descendants(_, _, _)
Descendants(p, s, cs) ==
    IF s = cs THEN {p}
    ELSE UNION {Descendants(OChildSeq(p, s)[n], s - 1, cs) : n \in 1 .. 8}

\* min_data and max_data enclose the weighted voxels in D
Encloses(min_data, max_data, D) ==
    \A d \in D : d.weight > 0 =>
        GetField(min_data) <= GetField(d) /\ GetField(d) <= GetField(max_data)

\* C2: once the block and its parent node have been propagated, at every
\* scale above the current one and at the parent node the field of min_data is
\* at most the field of every weighted voxel of the current scale below it,
\* which is at most the field of max_data.
C2_MinMaxEnclose ==
    (opc = "idle" /\ ocalls > 0) =>
        LET cur == oheap[oblk.curr_data].v
        IN /\ \A s \in (oblk.current_scale + 1) .. MaxScale : \A p \in VoxIdx(s) :
                Encloses(oheap[At(oblk.block_min_data, MaxScale - s)].v[p],
                         oheap[At(oblk.block_max_data, MaxScale - s)].v[p],
                         {cur[i] : i \in Descendants(p, s, oblk.current_scale)})
           /\ Encloses(onode.min_data, onode.max_data,
                       {cur[i] : i \in VoxIdx(oblk.current_scale)})

\* the test of switchData as the block stands
C4_TestPasses ==
    /\ oblk.buffer_integr_count >= 20
    /\ 10 * oblk.buffer_observed_count * Cu(Pow2(oblk.buffer_scale))
          >= 9 * oblk.curr_observed_count * Cu(Pow2(oblk.current_scale))

\* C4: switchData returns true exactly when buffer_integr_count >= 20 and
\* buffer_observed_count * (1 << buffer_scale)^3 >= 0.9 * curr_observed_count *
\* (1 << current_scale)^3; the current scale changes only then, and otherwise
\* the scales, the pyramids, the buffer and the four counters stay as they were.
C4_SwitchGuarded ==
    [][opc = "switch" =>
          /\ (oret' = "true") <=> C4_TestPasses
          /\ oblk'.current_scale # oblk.current_scale => C4_TestPasses
          /\ ~C4_TestPasses => oblk' = oblk /\ oheap' = oheap]_vars

\* a call in which switchData refused a buffer that had its 20 integrations
C4_Witness ==
    /\ opc = "current"
    /\ oret = "false"
    /\ oblk.buffer_integr_count >= 20

C10_BufferOnly ==
    [][(opc = "current" /\ oret = "false") =>
          oheap'[oblk.curr_data].v = oheap[oblk.curr_data].v]_vars

TsdfUpIdempotent ==
    tpc = "idle" =>
        \A b \in TBlocks :
            tres = "multi" /\ ts[b] = tframe /\ tframe > 0
               => PropagateBlockUp(tblk[b], tblk[b].current_scale) = tblk[b]

-----------------------------------------------------------------------------
(***************************************************************************)
(* Properties of the raycast                                               *)
(***************************************************************************)

\* C8: a point returned by raycast lies between two consecutive sampled
\* positions of the ray whose fields bracket the surface boundary.
C8_HitBracketed ==
    (rpc = "done" /\ rres.some) =>
        \E k \in 0 .. RayLen - 1 :
            /\ rmap[k].valid /\ rmap[k + 1].valid
            /\ rmap[k].field <= SurfaceBoundary
            /\ rmap[k + 1].field >= SurfaceBoundary
            /\ k * RayOne <= rres.t
            /\ rres.t <= (k + 1) * RayOne

-----------------------------------------------------------------------------
(***************************************************************************)
(* Properties of the propagation to the root                               *)
(***************************************************************************)

\* the octant aggregated by the step that led to this state, or NULL
Aggregated == IF plog = <<>> THEN NULL ELSE plog[Len(plog)]

NodeObserved(data, n) == data[n].max_data.observed /\ data[n].min_data.observed

ChildrenOfNode(n) == {GetChild(TreeS, n, i) : i \in ChildSlots} \ {NULL}

\* all eight children of n exist and are observed
EightObserved(n) ==
    /\ \A i \in ChildSlots : GetChild(TreeS, n, i) # NULL
    /\ \A c \in ChildrenOfNode(n) : NodeObserved(pdata, c)

NodeSetByDepth ==
    \A d \in DOMAIN node_set : \A n \in node_set[d] : OctantDepth(n) = d

\* the aggregations of the frame go from the deepest nodes up, no octant
\* twice and no octant before one of its children
AggregatedBottomUp ==
    \A i, j \in 1 .. Len(plog) :
        i < j => /\ OctantDepth(plog[i]) >= OctantDepth(plog[j])
                 /\ plog[i] # plog[j]
                 /\ OctantParent(plog[j]) # plog[i]

\* C19: in the propagateToRoot of one frame every set node_set_[d] contains
\* only nodes of depth d, so that the nodes of depth d are aggregated before
\* any node of depth d - 1, each node at most once, and a node only after
\* those of its children that are aggregated in the frame.
C19_LevelOrder == NodeSetByDepth /\ AggregatedBottomUp

\* the nodes whose children a step of propagateToRoot deleted
Pruned(n) ==
    /\ n \in plive /\ n \in plive'
    /\ ChildrenOfNode(n) # {}
    /\ ChildrenOfNode(n) \cap plive' = {}

\* no weighted octant below n has a field above 0.95 * min_occupancy
FreeBelow(n) ==
    \A c \in SubtreeOf(TreeS, n) :
        /\ pdata[c].max_data.weight > 0 => FreeEnough(pdata[c].max_data)
        /\ pdata[c].min_data.weight > 0 => FreeEnough(pdata[c].min_data)

NodePropagationIdempotent ==
    (Aggregated # NULL /\ Aggregated \in plive)
        => PropagateToNoteAtCoarserScale(TreeS, Aggregated, pframe) = TreeS

-----------------------------------------------------------------------------
(***************************************************************************)
(* Properties of the choice of the integration scale                       *)
(***************************************************************************)

\* C15: the integration scale chosen for a block integrated before lies
\* within [0, block max scale] and is at most one step from the block's last
\* current scale, whatever scale computeIntegrationScale returns.
C15_ScaleWithinOneStep ==
    scpc = "done"
        => /\ scout \in 0 .. BlockMaxScale
           /\ scout - scin.last_scale \in {-1, 0, 1}

-----------------------------------------------------------------------------
(***************************************************************************)
(* Properties of data(voxel_coord, desired_scale, actual_scale)            *)
(***************************************************************************)

\* the array the integration of the current scale writes
CurrData(M, voxel_idx) == M.heap[M.blk.curr_data].v[voxel_idx]

TsdfData(blk, i, scale_desired) ==
    LET scale_returned == Max2(scale_desired, blk.current_scale)
        voxel_idx == OccGetVoxelIdx(i, scale_returned)
    IN [scale_returned |-> scale_returned,
        in_range |-> scale_returned \in Scales /\ voxel_idx \in VoxIdx(scale_returned),
        voxel_idx |-> voxel_idx]

\* the same for the TSDF block, whose array holds every scale
TsdfDataAtCoarserOfScales ==
    \A b \in TBlocks, i \in VoxIdx(0), scale_desired \in Scales :
        LET r == TsdfData(tblk[b], i, scale_desired)
        IN /\ r.scale_returned = Max2(scale_desired, tblk[b].current_scale)
           /\ r.in_range
           /\ r.scale_returned = 0 => r.voxel_idx = i
           /\ r.scale_returned = 1 => r.voxel_idx = ParentIdx(i, 0)

-----------------------------------------------------------------------------
(***************************************************************************)
(* Properties of the buffer and the counters of the occupancy block        *)
(***************************************************************************)

\* the contents of the mean, min and max pyramids of a block, scale by scale
Pyramids(blk, heap) ==
    [mean |-> [k \in 1 .. Len(blk.block_data) |-> heap[blk.block_data[k]].v],
     min |-> [k \in 1 .. Len(blk.block_min_data) |-> heap[blk.block_min_data[k]].v],
     max |-> [k \in 1 .. Len(blk.block_max_data) |-> heap[blk.block_max_data[k]].v]]

\* the step of a kernel call that writes the frame into the buffer
BufferWrite == opc = "idle" /\ opc' = "switch"

\* C21: the writes to the buffer voxels change no entry of the mean, min or
\* max pyramid at any scale and no current counter, and a frame raises
\* curr_integr_count by one at most.
C21_BufferWritesNoTrace ==
    [][/\ BufferWrite =>
            /\ Pyramids(oblk', oheap') = Pyramids(oblk, oheap)
            /\ oblk'.curr_integr_count = oblk.curr_integr_count
            /\ oblk'.curr_observed_count = oblk.curr_observed_count
       /\ (oblk.min_scale # -1 /\ oret' # "true") =>
            oblk'.curr_integr_count - oblk.curr_integr_count \in {0, 1}]_vars


\* the mean data of the block at its coarsest scale: block_data_[0][0]
BlockMeanData(blk, heap) == heap[At(blk.block_data, 0)].v[0]

\* C22: after the propagation to a node from its children, the node's mean
\* data is the weighted mean of the mean data of its weighted children; for
\* the node whose only child is the block that is the block's mean data.  The
\* node keeps min_data and max_data only, so one of the two has to be it.
C22_NodeMeanOfChildren ==
    [][opc = "prop" =>
          LET mean == BlockMeanData(oblk', oheap') IN
          mean.weight > 0 =>
              \E d \in {onode'.min_data, onode'.max_data} :
                  d.occupancy = mean.occupancy /\ d.weight = mean.weight]_vars


\* the voxels of the current scale whose observed flag is set
ObservedVoxels(blk, heap) ==
    {i \in VoxIdx(blk.current_scale) : heap[blk.curr_data].v[i].observed}

\* C23: between kernel calls, curr_observed_count of a block that has been
\* integrated is the number of voxels of the current scale whose observed
\* flag is set, and so at most the number of voxels of that scale.
C23_ObservedCountExact ==
    (opc = "idle" /\ oblk.curr_integr_count > 0)
        => /\ oblk.curr_observed_count = Cardinality(ObservedVoxels(oblk, oheap))
           /\ oblk.curr_observed_count <= NumVox(oblk.current_scale)


\* buffer_integr_count before the increment of the call: 0 when the call
\* opened the buffer with initBuffer
BufferCountBefore ==
    IF oblk'.buffer_scale # oblk.buffer_scale THEN 0 ELSE oblk.buffer_integr_count

\* C24 as stated: every kernel call that integrates a frame into the buffer
\* raises buffer_integr_count by exactly one.
C24_BufferCountPlusOne ==
    [][BufferWrite => oblk'.buffer_integr_count = BufferCountBefore + 1]_vars

\* C24: a kernel call that integrates a frame into the buffer raises
\* buffer_integr_count by one when the block projects inside the image or the
\* observed voxels of the buffer cover 90 % of those of the current data, and
\* leaves it as it is otherwise.
C24_BufferCountGuarded ==
    [][BufferWrite =>
          oblk'.buffer_integr_count =
              BufferCountBefore
                + (IF oin'.project_inside \/ BufferCoversCurrent(oblk') THEN 1 ELSE 0)]_vars

\* a frame that did not project inside went into the buffer and was counted
\* because the buffer covers the current data
C24_Witness ==
    /\ opc = "switch"
    /\ ~oin.project_inside
    /\ oblk.buffer_integr_count > 1

-----------------------------------------------------------------------------
(***************************************************************************)
(* Properties of the parallel block loop                                   *)
(***************************************************************************)

\* C25: in the parallel update stage the worker of a block reads and writes
\* the voxel arrays of that block only, and never reads a block that another
\* worker of the stage may be writing.
C25_OwnBlockOnly ==
    /\ \A a \in uacc : a[2] = a[1]
    /\ \A a \in uacc : (a[3] = "read" /\ a[2] # a[1]) => a[2] \notin ulist

-----------------------------------------------------------------------------
(***************************************************************************)
(* Properties of the heap arrays of the occupancy block                    *)
(***************************************************************************)

\* the arrays the block can reach: the pyramids, curr_data_, buffer_data_
Reachable(blk) ==
    (Range(blk.block_data) \cup Range(blk.block_min_data) \cup Range(blk.block_max_data)
       \cup {blk.curr_data, blk.buffer_data}) \ {NULL}

\* ~BlockMultiRes(): the arrays handed to delete[], in order
DestructorDeletes(blk) ==
    blk.block_data
      \o (IF blk.block_min_data = <<>> THEN <<>> ELSE PopBack(blk.block_min_data))
      \o (IF blk.block_max_data = <<>> THEN <<>> ELSE PopBack(blk.block_max_data))
      \o (IF blk.buffer_data # NULL /\ blk.buffer_scale < blk.min_scale
            THEN <<blk.buffer_data>> ELSE <<>>)

\* every array of the heap is freed by the destructor exactly once
FreedExactlyOnce(blk, heap) ==
    LET dels == DestructorDeletes(blk) IN
    /\ \A j, k \in DOMAIN dels : dels[j] = dels[k] => j = k
    /\ \A k \in DOMAIN dels : heap[dels[k]].live
    /\ \A h \in Handles : heap[h].live => h \in Range(dels)

\* no array is reached through the block after it was freed
NoneUsedAfterFree(blk, heap) == \A h \in Reachable(blk) : heap[h].live


\* C26: whatever calls were made on the block, its destruction frees every
\* array the block allocated exactly once, and no array is reached through the
\* pyramids, curr_data_ or buffer_data_ after it was freed
C26_ArraysFreedExactlyOnce ==
    /\ FreedExactlyOnce(lblk, lheap)
    /\ NoneUsedAfterFree(lblk, lheap)

\* the same for the block of the updater, between two of its steps
UpdaterArraysFreedExactlyOnce ==
    /\ FreedExactlyOnce(oblk, oheap)
    /\ NoneUsedAfterFree(oblk, oheap)

-----------------------------------------------------------------------------
(***************************************************************************)
(* Properties of Octree::deleteChildren                                    *)
(***************************************************************************)

\* the tree the call was made on
DelBefore == dtree \cup Range(dlog)

\* the call released every descendant of dn exactly once and not dn itself,
\* and left the eight child slots of dn empty
ReleasedDescendantsOnce ==
    /\ \A j, k \in DOMAIN dlog : dlog[j] = dlog[k] => j = k
    /\ Range(dlog) = SubtreeOf(DelS(DelBefore), dn)
    /\ dn \notin Range(dlog)
    /\ PRoot \notin Range(dlog)
    /\ \A i \in ChildSlots : GetChild(DelS(dtree), dn, i) = NULL
    /\ ~dub

\* C27: deleteChildren(n) releases every descendant octant of n exactly once,
\* never n itself nor the root, and returns with the eight child slots of n empty
C27_DeleteChildrenReleasesOnce == dpc = "done" => ReleasedDescendantsOnce

\* the same for the definition of include/se/map alone
NewDeleteChildrenReleasesOnce == (dpc = "done" /\ dimpl = "map") => ReleasedDescendantsOnce

-----------------------------------------------------------------------------
(***************************************************************************)
(* Properties of the TSDF up-propagation                                   *)
(***************************************************************************)

\* the children of parent voxel p of scale cs + 1 that have a weight
WeightedChildren(blk, cs, p) == {i \in ChildrenOf(p, cs + 1) : blk.data[cs][i].weight # 0}

\* the sum of their weights
ChildWeightSum(blk, cs, p) ==
    SumOver([i \in VoxIdx(cs) |-> blk.data[cs][i].weight], WeightedChildren(blk, cs, p))

\* w is the ceiling of sum / n
IsCeilingOf(w, sum, n) == w * n >= sum /\ (w - 1) * n < sum

\* the parent voxel holds what the up-propagation of its children gives
ParentOfChildren(blk, cs, p) ==
    LET n == Cardinality(WeightedChildren(blk, cs, p)) IN
    IF n >= 1
      THEN IsCeilingOf(blk.data[cs + 1][p].weight, ChildWeightSum(blk, cs, p), n)
      ELSE blk.data[cs + 1][p] = TsdfDefaultData

\* C28: after the multi-res TSDF updater has propagated a block up, a parent
\* voxel with n >= 1 children of non-zero weight has the ceiling of the mean
\* of those weights as its weight, and a parent voxel with no such child holds
\* the default data
C28_ParentWeightCeiling ==
    (tpc = "idle" /\ tres = "multi" /\ tframe >= 1) =>
        \A b \in StampedBlocks :
            \A cs \in Scales :
                (cs >= tblk[b].current_scale /\ cs < MaxScale) =>
                    \A p \in VoxIdx(cs + 1) : ParentOfChildren(tblk[b], cs, p)

\* a frame has propagated up a block whose weighted children have a mean
\* weight that is not an integer, and a block none of whose children has a
\* weight
C28_Witness ==
    /\ tpc = "idle" /\ tres = "multi"
    /\ \E b \in StampedBlocks :
          /\ tblk[b].current_scale = 0
          /\ LET n == Cardinality(WeightedChildren(tblk[b], 0, 0)) IN
                n >= 1 /\ ChildWeightSum(tblk[b], 0, 0) % n # 0
    /\ \E b \in StampedBlocks :
          /\ tblk[b].current_scale = 0
          /\ WeightedChildren(tblk[b], 0, 0) = {}

-----------------------------------------------------------------------------
(***************************************************************************)
(* Properties of the first integration of an occupancy block               *)
(***************************************************************************)

\* the step takes the branch for a block no data was integrated in
TakesFirstBranch == opc = "idle" /\ opc' # "idle" /\ oblk.min_scale = -1

\* C29: the updater takes the branch for a block without data (allocateDownTo,
\* initCurrCout, reset of the init data) at most once per block: once a frame
\* was integrated in the block its min scale is not -1, whatever scale was
\* chosen, and no later frame takes the branch
C29_FirstBranchOnce ==
    [][/\ (opc = "idle" /\ opc' # "idle") => oblk'.min_scale # -1
       /\ TakesFirstBranch => ocalls = 0]_vars

\* the same for a first integration below the coarsest scale
FirstBranchOnceBelowCoarsest ==
    [][(opc = "idle" /\ opc' # "idle" /\ oblk'.current_scale < MaxScale)
            => oblk'.min_scale # -1]_vars

-----------------------------------------------------------------------------
(***************************************************************************)
(* Properties of the optionals of the occupancy raycast                    *)
(***************************************************************************)

\* C30: whenever the crossing test after the loop of the occupancy raycast
\* reads value_tt and value_t, both optionals hold a value
C30_BothOptionalsHold == rpc = "check" => (rvalue_tt.has /\ rvalue_t.has)

\* value_t alone holds a value at the crossing test
ValueTHolds == rpc = "check" => rvalue_t.has
====
